---- MODULE Spec2Model ----
(***************************************************************************)
(* A model of the tactical core of three_kingdoms: the entity store        *)
(* (Province.units / Province.country / UnitState), the adjacency graph    *)
(* and path cost of MapManager, the combat results table of combat.py and  *)
(* the move / preview / resolve / end-turn / restart handlers of GameApp.  *)
(*                                                                         *)
(* Numbers.  Attack and defense powers are floats that are multiples of    *)
(* 0.5, plus the 0.1 floor of the total defense; the model keeps them as   *)
(* integers in tenths (3.5 is 35, 0.1 is 1), so every comparison of the    *)
(* code is an exact integer comparison.  Tile positions are x_factor and   *)
(* y_factor doubled (x2, y2), so the squared pixel distance of two centres *)
(* is hex_side^2 * (dx2^2 + 3*dy2^2) / 4 and one stride (sqrt(3)*hex_side) *)
(* squared is 12 in these units.  Province.compute_center truncates each   *)
(* pixel centre with int(); the model compares the untruncated centres.    *)
(*                                                                         *)
(* Steps.  One step is one pass of GameApp.run: one input event handled    *)
(* to completion, followed by the frame's _render_gameplay (Frame).  The   *)
(* variable last_op records which handler ran and on which branch it       *)
(* returned; the program has no such field.                                *)
(***************************************************************************)
EXTENDS Integers, Sequences, FiniteSets, TLC

VARIABLES
    state,             \* GameApp.state: "LOADING" | "CHOOSING" | "PLAYING"
    player_country,    \* GameApp.player_country ("" is None)
    units,             \* Province.units: tile -> sequence of unit ids
    country,           \* Province.country: tile -> faction tag ("" is neutral)
    unit_type,         \* UnitState.unit_type: unit -> type tag
    hp,                \* UnitState.hp
    is_confused,       \* UnitState.is_confused
    attack_count,      \* UnitState.attack_count
    mp,                \* UnitState.mp (set by _replenish_action_points)
    selected_units,    \* GameApp.selected_units: sequence of <<tile, slot>>
    show_combat_ui,    \* GameApp.show_combat_ui
    combat_target,     \* GameApp.combat_target (0 is None)
    combat_callback,   \* GameApp.combat_callback: the captured arguments, or NoCallback
    recover_btn_rect,  \* GameApp.recover_btn_rect is not None
    turns_ended,       \* how often the END_TURN button was pressed
    last_op,           \* the handler that ran last and how it ended (op, note)
    probe              \* arguments and result of the pure function last applied

vars == <<state, player_country, units, country, unit_type, hp, is_confused,
          attack_count, mp, selected_units, show_combat_ui, combat_target,
          combat_callback, recover_btn_rect, turns_ended, last_op, probe>>

gameVars == <<state, player_country, units, country, unit_type, hp, is_confused,
              attack_count, mp, selected_units, show_combat_ui, combat_target,
              combat_callback, recover_btn_rect, turns_ended, last_op>>

Max(a, b) == IF a >= b THEN a ELSE b

Min(a, b) == IF a <= b THEN a ELSE b

(***************************************************************************)
(* combat.py                                                               *)
(***************************************************************************)
RESULT_A2 == "A2"

RESULT_A1 == "A1"

RESULT_AG == "AG"

RESULT_AG_DG == "AG&DG"

RESULT_C == "C"

RESULT_DG == "DG"

RESULT_DR == "DR"

RESULT_D1 == "D1"

RESULT_D1R == "D1R"

ResultCodes ==
    {RESULT_A2, RESULT_A1, RESULT_AG, RESULT_AG_DG, RESULT_C,
     RESULT_DG, RESULT_DR, RESULT_D1, RESULT_D1R}

\* COMBAT_TABLE: dice -> the row of six result codes (column 0 is element 1).
COMBAT_TABLE ==
    [d \in 1..6 |->
        CASE d = 1 -> <<RESULT_A2, RESULT_A1,    RESULT_A1,    RESULT_C,  RESULT_C,  RESULT_DG>>
          [] d = 2 -> <<RESULT_A1, RESULT_AG,    RESULT_AG_DG, RESULT_DG, RESULT_DG, RESULT_DG>>
          [] d = 3 -> <<RESULT_AG, RESULT_AG_DG, RESULT_C,     RESULT_DG, RESULT_DR, RESULT_DR>>
          [] d = 4 -> <<RESULT_AG, RESULT_C,     RESULT_DG,    RESULT_DR, RESULT_DR, RESULT_DR>>
          [] d = 5 -> <<RESULT_C,  RESULT_DG,    RESULT_DR,    RESULT_DR, RESULT_D1, RESULT_D1>>
          [] d = 6 -> <<RESULT_DG, RESULT_DR,    RESULT_D1,    RESULT_D1, RESULT_D1, RESULT_D1R>>]

\* A faulty variant of resolve_combat: the lower clamp max(0, ...) is missing,
\* so a negative column indexes the row from its end, as a Python list does.
resolve_combat_NoLowerClamp(dice, ratio_col) ==
    LET col == Min(5, ratio_col)
        row == IF dice \in DOMAIN COMBAT_TABLE
               THEN COMBAT_TABLE[dice]
               ELSE [i \in 1..6 |-> RESULT_C]
    IN  row[(col % 6) + 1]

\* resolve_combat(dice, ratio_col): clamp the column, then look the row up
\* (a dice value that is no key of the table yields a row of C).
resolve_combat(dice, ratio_col) ==
    LET col == Max(0, Min(5, ratio_col))
        row == IF dice \in DOMAIN COMBAT_TABLE
               THEN COMBAT_TABLE[dice]
               ELSE [i \in 1..6 |-> RESULT_C]
    IN  row[col + 1]

\* A faulty variant of RatioBracket: the 1.5 boundary is closed above
\* (ratio <= 1.5 instead of ratio < 1.5).
RatioBracket_ClosedBoundary(attack_power, defense_power) ==
    IF 2 * attack_power < 1 * defense_power THEN 0
    ELSE IF 2 * attack_power <= 3 * defense_power THEN 1
    ELSE IF 2 * attack_power < 5 * defense_power THEN 2
    ELSE IF 2 * attack_power < 7 * defense_power THEN 3
    ELSE IF 2 * attack_power < 9 * defense_power THEN 4
    ELSE 5

\* The bracket of ratio = attack_power / defense_power, defense_power > 0.
\* ratio < k/2 is 2*attack < k*defense, whatever the common scale.  The
\* code divides floats; for powers that are multiples of 0.5 (or the 0.1
\* floor) below 2^20 a quotient that is not exactly k/2 differs from it by
\* far more than one rounding error, so the float comparison and the
\* integer comparison agree.
RatioBracket(attack_power, defense_power) ==
    IF 2 * attack_power < 1 * defense_power THEN 0
    ELSE IF 2 * attack_power < 3 * defense_power THEN 1
    ELSE IF 2 * attack_power < 5 * defense_power THEN 2
    ELSE IF 2 * attack_power < 7 * defense_power THEN 3
    ELSE IF 2 * attack_power < 9 * defense_power THEN 4
    ELSE 5

\* A faulty variant of get_ratio_column: the flank shift is not clamped.
get_ratio_column_Unclamped(attack_power, defense_power, is_flanked) ==
    IF defense_power <= 0 THEN 5
    ELSE LET col == RatioBracket(attack_power, defense_power)
         IN  IF is_flanked THEN col + 1 ELSE col

\* get_ratio_column(attack_power, defense_power, is_flanked), powers in tenths.
get_ratio_column(attack_power, defense_power, is_flanked) ==
    IF defense_power <= 0 THEN 5
    ELSE LET col == RatioBracket(attack_power, defense_power)
         IN  IF is_flanked THEN Min(5, col + 1) ELSE col

(***************************************************************************)
(* unit.py: UnitDefinition.  The definitions are loaded from units.json,   *)
(* which is data handed to the program; the table below is the sample the  *)
(* model runs on (all values small positive integers).                     *)
(***************************************************************************)
UnitTypes ==
    {"infantry", "cavalry", "archer", "JIEFAN_infantry", "WUDANG_archer"}

UnitDefinition ==
    [t \in UnitTypes |->
        CASE t = "infantry"        -> [move |-> 1, attack |-> 3, defense |-> 3, range |-> 1]
          [] t = "cavalry"         -> [move |-> 2, attack |-> 4, defense |-> 2, range |-> 1]
          [] t = "archer"          -> [move |-> 1, attack |-> 2, defense |-> 2, range |-> 2]
          [] t = "JIEFAN_infantry" -> [move |-> 1, attack |-> 4, defense |-> 5, range |-> 1]
          [] t = "WUDANG_archer"   -> [move |-> 2, attack |-> 3, defense |-> 3, range |-> 2]]

get_definition(t) == UnitDefinition[t]

(***************************************************************************)
(* map_manager.py: terrain, adjacency graph, path cost                     *)
(***************************************************************************)
\* str.lower() on the terrain tags that occur.
lower(s) ==
    CASE s = "Hill"     -> "hill"
      [] s = "Mountain" -> "mountain"
      [] s = "Plain"    -> "plain"
      [] OTHER          -> s

\* t_terrain in ("hill", "mountain", "hills", "mountains")
is_mtn(terrain) ==
    (IF terrain # "" THEN lower(terrain) ELSE "")
        \in {"hill", "mountain", "hills", "mountains"}

\* ccw of _segments_intersect; points are <<x, y>>.
ccw(p1, p2, p3) ==
    (p3[2] - p1[2]) * (p2[1] - p1[1]) > (p2[2] - p1[2]) * (p3[1] - p1[1])

_segments_intersect(A, B, C, D) ==
    /\ ccw(A, C, D) # ccw(B, C, D)
    /\ ccw(A, B, C) # ccw(A, B, D)

\* The segments of a tuple of polylines: polyline[i], polyline[i+1].
Segments(polylines) ==
    UNION { { <<polylines[k][i], polylines[k][i + 1]>> :
                i \in 1..(Len(polylines[k]) - 1) } :
            k \in DOMAIN polylines }

\* Squared distance of two tile centres, in units where one stride
\* (sqrt(3) * hex_side) squared is 12.
Dist2(a, b) ==
    (a[1] - b[1]) * (a[1] - b[1]) + 3 * (a[2] - b[2]) * (a[2] - b[2])

\* dist < (hex_side * 3**0.5) * 1.5, squared: 12 * 2.25 = 27.
WithinAdjacencyThreshold(a, b) == Dist2(a, b) < 27

\* _build_adjacency_graph over a province list `ids` with positions `pos`:
\* the record of _adjacency (list of neighbour ids, in list order) and
\* _river_crossing_edges (the set of flagged ordered pairs).
_build_adjacency_graph(ids, pos, river_polylines, ban_polylines) ==
    LET river_segments == Segments(river_polylines)
        ban_segments   == Segments(ban_polylines)
        Blocked(p1, p2) ==
            \E s \in ban_segments : _segments_intersect(pos[p1], pos[p2], s[1], s[2])
        Crossing(p1, p2) ==
            \E s \in river_segments : _segments_intersect(pos[p1], pos[p2], s[1], s[2])
        Nb(p1) ==
            LET Test(p2) == /\ p1 # p2
                            /\ WithinAdjacencyThreshold(pos[p1], pos[p2])
                            /\ ~Blocked(p1, p2)
            IN  SelectSeq(ids, Test)
        idset == { ids[i] : i \in DOMAIN ids }
        adj == [p1 \in idset |-> Nb(p1)]
    IN  [ _adjacency |-> adj,
          _river_crossing_edges |->
              { e \in idset \X idset :
                  /\ \E i \in DOMAIN adj[e[1]] : adj[e[1]][i] = e[2]
                  /\ Crossing(e[1], e[2]) } ]

\* float('inf') of min_costs.get(id, float('inf')).
Inf == 1000000

\* The unreachable result of find_path_cost.
Unreachable == 9999

\* heapq.heappop on a heap of (cost, id) tuples: the least tuple.
HeapMin(queue) ==
    CHOOSE e \in queue :
        \A f \in queue : e[1] < f[1] \/ (e[1] = f[1] /\ e[2] <= f[2])

\* The for-loop over the neighbours of curr_id: <<queue, min_costs>> after it.
\* m is [terrain, _adjacency, _river_crossing_edges] of the MapManager.
RECURSIVE RelaxNeighbors(_, _, _, _, _, _)
RelaxNeighbors(m, curr_total, curr_id, nbs, queue, min_costs) ==
    IF nbs = <<>> THEN <<queue, min_costs>>
    ELSE LET next_id == Head(nbs)
         IN  IF next_id \notin DOMAIN m.terrain
             THEN RelaxNeighbors(m, curr_total, curr_id, Tail(nbs), queue, min_costs)
             ELSE
             LET step_cost == 1 + (IF is_mtn(m.terrain[next_id]) THEN 1 ELSE 0)
                                + (IF <<curr_id, next_id>> \in m._river_crossing_edges
                                   THEN 1 ELSE 0)
                 new_total == curr_total + step_cost
             IN  IF new_total < min_costs[next_id]
                 THEN RelaxNeighbors(m, curr_total, curr_id, Tail(nbs),
                                     queue \cup {<<new_total, next_id>>},
                                     [min_costs EXCEPT ![next_id] = new_total])
                 ELSE RelaxNeighbors(m, curr_total, curr_id, Tail(nbs), queue, min_costs)

\* The while-loop of find_path_cost.
RECURSIVE DijkstraLoop(_, _, _, _)
DijkstraLoop(m, target_id, queue, min_costs) ==
    IF queue = {} THEN Unreachable
    ELSE LET top == HeapMin(queue)
             curr_total == top[1]
             curr_id == top[2]
             rest == queue \ {top}
         IN  IF curr_total > min_costs[curr_id]
             THEN DijkstraLoop(m, target_id, rest, min_costs)
             ELSE IF curr_id = target_id THEN curr_total
             ELSE LET nbs == IF curr_id \in DOMAIN m._adjacency
                             THEN m._adjacency[curr_id] ELSE <<>>
                      r == RelaxNeighbors(m, curr_total, curr_id, nbs, rest, min_costs)
                  IN  DijkstraLoop(m, target_id, r[1], r[2])

\* A faulty variant of find_path_cost: the surcharge for leaving a rough
\* start tile is missing.
find_path_cost_NoStartSurcharge(m, start_id, target_id) ==
    IF start_id = target_id THEN 0
    ELSE IF start_id \notin DOMAIN m.terrain THEN Unreachable
    ELSE DijkstraLoop(m, target_id, {<<0, start_id>>},
                      [i \in DOMAIN m.terrain |-> IF i = start_id THEN 0 ELSE Inf])

\* MapManager.find_path_cost(start_id, target_id) on the map m.
find_path_cost(m, start_id, target_id) ==
    IF start_id = target_id THEN 0
    ELSE IF start_id \notin DOMAIN m.terrain THEN Unreachable
    ELSE LET initial_cost == IF is_mtn(m.terrain[start_id]) THEN 1 ELSE 0
         IN  DijkstraLoop(m, target_id, {<<initial_cost, start_id>>},
                          [i \in DOMAIN m.terrain |->
                              IF i = start_id THEN initial_cost ELSE Inf])

(***************************************************************************)
(* The map the game runs on: definitions.csv and the polylines of app.py   *)
(* are data; this is the sample.  Positions are <<2*x_factor, 2*y_factor>>.*)
(***************************************************************************)
\* MapManager._provinces_list, in file order.
ProvinceList == <<1, 2, 3, 4, 5>>

Provinces == { ProvinceList[i] : i \in DOMAIN ProvinceList }

\* A row 5 - 1 - 2 - 3 of plain tiles one stride apart, and the hill 4 one
\* stride from 2 and from 3; 1 is two strides from 3.
ProvincePos ==
    [p \in Provinces |->
        CASE p = 1 -> <<0, 2>>
          [] p = 2 -> <<3, 3>>
          [] p = 3 -> <<6, 2>>
          [] p = 4 -> <<6, 4>>
          [] p = 5 -> <<-3, 3>>]

ProvinceTerrain ==
    [p \in Provinces |->
        CASE p = 4 -> "Hill"
          [] OTHER -> "plain"]

\* River polylines and ban polylines (doubled coordinates): the river runs
\* between 2 and {3, 4}, the impassable boundary between 5 and 1.
RiverPolylines == << << <<4, 0>>, <<5, 5>> >> >>

BanPolylines == << << <<-2, 0>>, <<-1, 5>> >> >>

\* MapManager after set_hex_side: terrain plus the adjacency graph.
GameMap ==
    LET g == _build_adjacency_graph(ProvinceList, ProvincePos,
                                    RiverPolylines, BanPolylines)
    IN  [ terrain |-> ProvinceTerrain,
          _adjacency |-> g._adjacency,
          _river_crossing_edges |-> g._river_crossing_edges ]

(***************************************************************************)
(* The entity store as a value: S.units, S.country, S.hp, S.is_confused,   *)
(* S.attack_count, S.mp.  unit_type never changes and is read from the     *)
(* variable.                                                               *)
(***************************************************************************)
Store ==
    [ units |-> units, country |-> country, hp |-> hp,
      is_confused |-> is_confused, attack_count |-> attack_count, mp |-> mp ]

SeqToSet(s) == { s[i] : i \in DOMAIN s }

\* UnitState.is_injured
is_injured(S, u) == S.hp[u] < 2

\* The dataclass __eq__ of UnitState: the declared fields, in order
\* (mp is an attribute added later and takes no part).
unit_eq(S, a, b) ==
    /\ unit_type[a] = unit_type[b]
    /\ S.hp[a] = S.hp[b]
    /\ S.is_confused[a] = S.is_confused[b]
    /\ S.attack_count[a] = S.attack_count[b]

\* `unit in lst`
list_contains(S, lst, u) == \E i \in DOMAIN lst : unit_eq(S, lst[i], u)

\* `lst.remove(unit)`: drops the first element equal to unit.
list_remove(S, lst, u) ==
    LET i == CHOOSE k \in DOMAIN lst :
                 /\ unit_eq(S, lst[k], u)
                 /\ \A j \in 1..(k - 1) : ~unit_eq(S, lst[j], u)
    IN  SubSeq(lst, 1, i - 1) \o SubSeq(lst, i + 1, Len(lst))

\* A faulty variant of sort_key: the injury status is left out of the key.
sort_key_DefenseOnly(S, u) ==
    << 0, get_definition(unit_type[u]).defense >>

\* sort_key(u) of _apply_damage and _apply_confusion: (is_inj, defense).
sort_key(S, u) ==
    << IF is_injured(S, u) THEN 1 ELSE 0, get_definition(unit_type[u]).defense >>

KeyLess(k1, k2) == k1[1] < k2[1] \/ (k1[1] = k2[1] /\ k1[2] < k2[2])

\* sorted(living_units, key=sort_key): a stable sort.
RECURSIVE sorted(_, _)
sorted(S, lst) ==
    IF lst = <<>> THEN <<>>
    ELSE LET rest == sorted(S, SubSeq(lst, 1, Len(lst) - 1))
             u == lst[Len(lst)]
             \* u goes after every element whose key is not greater than its own
             n == Cardinality({ i \in DOMAIN rest :
                                  ~KeyLess(sort_key(S, u), sort_key(S, rest[i])) })
         IN  SubSeq(rest, 1, n) \o <<u>> \o SubSeq(rest, n + 1, Len(rest))

\* A faulty variant of living_units: dead units are not filtered out.
living_units_IncludesDead(S, lst) == SelectSeq(lst, LAMBDA u : S.hp[u] >= 0)

living_units(S, lst) == SelectSeq(lst, LAMBDA u : S.hp[u] > 0)

\* _apply_damage(units, amount)
RECURSIVE _apply_damage(_, _, _)
_apply_damage(S, lst, amount) ==
    IF amount = 0 \/ living_units(S, lst) = <<>> THEN S
    ELSE LET target == sorted(S, living_units(S, lst))[1]
         IN  _apply_damage([S EXCEPT !.hp[target] = @ - 1], lst, amount - 1)

\* A faulty variant of _apply_confusion: the point goes to the first living
\* unit in priority order that is not yet confused, if there is one.
_apply_confusion_PrefersUnconfused(S, lst) ==
    IF living_units(S, lst) = <<>> THEN S
    ELSE LET cands == sorted(S, living_units(S, lst))
             fresh == SelectSeq(cands, LAMBDA u : ~S.is_confused[u])
             target == IF fresh # <<>> THEN fresh[1] ELSE cands[1]
         IN  IF S.is_confused[target]
             THEN [S EXCEPT !.hp[target] = @ - 1]
             ELSE [S EXCEPT !.is_confused[target] = TRUE]

\* _apply_confusion(unit_tuples), amount = 1
_apply_confusion(S, lst) ==
    IF living_units(S, lst) = <<>> THEN S
    ELSE LET target == sorted(S, living_units(S, lst))[1]
         IN  IF S.is_confused[target]
             THEN [S EXCEPT !.hp[target] = @ - 1]
             ELSE [S EXCEPT !.is_confused[target] = TRUE]

\* The destinations _handle_retreat accepts, in adjacency order.
valid_destinations(S, m, start_id) ==
    LET Ok(nid) ==
            /\ nid \in DOMAIN S.units
            /\ ~(S.country[nid] # "" /\ S.country[nid] # S.country[start_id])
            /\ ~(Len(S.units[nid]) + Len(S.units[start_id]) > 3)
            /\ 1 + (IF is_mtn(m.terrain[nid]) THEN 1 ELSE 0) <= 1
    IN  SelectSeq(m._adjacency[start_id], Ok)

\* A faulty variant of _handle_retreat: the damage point is applied whether
\* or not a destination was found.
_handle_retreat_AlwaysDamages(S, m, start_id) ==
    IF S.units[start_id] = <<>> THEN S
    ELSE LET dests == valid_destinations(S, m, start_id)
             S1 == _apply_damage(S, S.units[start_id], 1)
         IN  IF dests # <<>>
             THEN LET dest == dests[1]
                  IN  [S1 EXCEPT !.units[dest] = @ \o S.units[start_id],
                                 !.units[start_id] = <<>>]
             ELSE S1

\* _handle_retreat(province)
_handle_retreat(S, m, start_id) ==
    IF S.units[start_id] = <<>> THEN S
    ELSE LET dests == valid_destinations(S, m, start_id)
         IN  IF dests # <<>>
             THEN LET dest == dests[1]
                  IN  [S EXCEPT !.units[dest] = @ \o S.units[start_id],
                                !.units[start_id] = <<>>]
             ELSE _apply_damage(S, S.units[start_id], 1)

\* The fatigue loop of _resolve_combat over the attackers (tile, unit).
RECURSIVE Fatigue(_, _)
Fatigue(S, attackers) ==
    IF attackers = <<>> THEN S
    ELSE LET u == Head(attackers)[2]
             S1 == [S EXCEPT !.mp[u] = @ - 1, !.attack_count[u] = @ + 1]
             S2 == IF S1.attack_count[u] >= 2
                   THEN [S1 EXCEPT !.is_confused[u] = TRUE] ELSE S1
         IN  Fatigue(S2, Tail(attackers))

\* _cleanup_dead_units(attackers, target)
_cleanup_dead_units(S, attackers, target) ==
    LET any_dead == \E i \in DOMAIN attackers : S.hp[attackers[i][2]] <= 0
        provs == { attackers[i][1] : i \in DOMAIN attackers }
        Alive(lst) == SelectSeq(lst, LAMBDA u : S.hp[u] > 0)
        S1 == IF any_dead
              THEN [S EXCEPT !.units =
                        [p \in DOMAIN S.units |->
                            IF p \in provs THEN Alive(S.units[p]) ELSE S.units[p]]]
              ELSE S
    IN  [S1 EXCEPT !.units[target] = Alive(S1.units[target])]

\* A faulty variant of AdvanceLoop: the limit of 2 movers is missing.
RECURSIVE AdvanceLoop_NoLimit(_, _, _, _, _)
AdvanceLoop_NoLimit(S, attackers, target, player, movers) ==
    IF attackers = <<>> THEN S
    ELSE LET prov == Head(attackers)[1]
             unit == Head(attackers)[2]
         IN  IF S.hp[unit] > 0 /\ list_contains(S, S.units[prov], unit)
             THEN LET S1 == [S EXCEPT !.units[prov] = list_remove(S, @, unit)]
                      S2 == [S1 EXCEPT !.units[target] = Append(@, unit),
                                       !.country[target] = player]
                  IN  AdvanceLoop_NoLimit(S2, Tail(attackers), target, player, movers + 1)
             ELSE AdvanceLoop_NoLimit(S, Tail(attackers), target, player, movers)

\* The loop of _advance_after_combat, movers units moved so far.
RECURSIVE AdvanceLoop(_, _, _, _, _)
AdvanceLoop(S, attackers, target, player, movers) ==
    IF attackers = <<>> \/ movers >= 2 THEN S
    ELSE LET prov == Head(attackers)[1]
             unit == Head(attackers)[2]
         IN  IF S.hp[unit] > 0 /\ list_contains(S, S.units[prov], unit)
             THEN LET S1 == [S EXCEPT !.units[prov] = list_remove(S, @, unit)]
                      S2 == [S1 EXCEPT !.units[target] = Append(@, unit),
                                       !.country[target] = player]
                  IN  AdvanceLoop(S2, Tail(attackers), target, player, movers + 1)
             ELSE AdvanceLoop(S, Tail(attackers), target, player, movers)

_advance_after_combat(S, attackers, target, player) ==
    AdvanceLoop(S, attackers, target, player, 0)

\* The advance step of _resolve_combat: `if not target_province.units`.
AdvanceIfEmpty(S, attackers, target, player) ==
    IF S.units[target] = <<>>
    THEN _advance_after_combat(S, attackers, target, player)
    ELSE S

\* Substring tests of _resolve_combat on the result code.
code_contains(sub, code) ==
    CASE sub = "A2" -> code \in {"A2"}
      [] sub = "A1" -> code \in {"A1"}
      [] sub = "D1" -> code \in {"D1", "D1R"}
      [] sub = "AG" -> code \in {"AG", "AG&DG"}
      [] sub = "DG" -> code \in {"DG", "AG&DG"}
      [] sub = "DR" -> code \in {"DR"}
      [] sub = "R"  -> code \in {"DR", "D1R"}
      [] sub = "D"  -> code \in {"AG&DG", "DG", "DR", "D1", "D1R"}

\* The store after _resolve_combat(col_index, attackers, target) with the
\* given dice value.
ResolveStore(S, m, col_index, attackers, target, player, dice) ==
    LET result_code == resolve_combat(dice, col_index)
        dmg_attacker == IF code_contains("A2", result_code) THEN 2
                        ELSE IF code_contains("A1", result_code) THEN 1 ELSE 0
        dmg_defender == IF code_contains("D1", result_code) THEN 1 ELSE 0
        atk_units == [i \in DOMAIN attackers |-> attackers[i][2]]
        S1 == IF code_contains("AG", result_code)
              THEN _apply_confusion(S, atk_units) ELSE S
        S2 == IF code_contains("DG", result_code)
              THEN _apply_confusion(S1, S1.units[target]) ELSE S1
        retreat_defender ==
            \/ code_contains("DR", result_code)
            \/ (code_contains("R", result_code) /\ code_contains("D", result_code))
        S3 == IF dmg_attacker > 0 THEN _apply_damage(S2, atk_units, dmg_attacker) ELSE S2
        S4 == IF dmg_defender > 0
              THEN _apply_damage(S3, S3.units[target], dmg_defender) ELSE S3
        S5 == IF retreat_defender THEN _handle_retreat(S4, m, target) ELSE S4
        S6 == Fatigue(S5, attackers)
        S7 == _cleanup_dead_units(S6, attackers, target)
    IN  AdvanceIfEmpty(S7, attackers, target, player)

(***************************************************************************)
(* app.py: combat preview                                                  *)
(***************************************************************************)
\* _calculate_unit_powers(unit_state): <<atk, dfs>> in tenths.
_calculate_unit_powers(S, u) ==
    LET d == get_definition(unit_type[u])
        atk0 == IF is_injured(S, u) THEN d.attack * 5 ELSE d.attack * 10
        dfs0 == IF is_injured(S, u) THEN d.defense * 5 ELSE d.defense * 10
    IN  IF S.is_confused[u]
        THEN << Max(0, atk0 - 10), Max(0, dfs0 - 10) >>
        ELSE << atk0, dfs0 >>

\* The archetype a type tag contains ("infantry" in t, "cavalry" in t, ...).
base_type(t) ==
    CASE t \in {"infantry", "JIEFAN_infantry"} -> "infantry"
      [] t \in {"cavalry", "HUBAO_cavalry"}    -> "cavalry"
      [] t \in {"archer", "WUDANG_archer"}     -> "archer"
      [] OTHER                                 -> ""

\* get_relationship(attacker_type, defender_type): 1, -1 or 0.
get_relationship(attacker_type, defender_type) ==
    LET a_base == base_type(attacker_type)
        d_base == base_type(defender_type)
    IN  IF a_base = "" \/ d_base = "" THEN 0
        ELSE IF a_base = "infantry" /\ d_base = "archer" THEN 1
        ELSE IF a_base = "infantry" /\ d_base = "cavalry" THEN -1
        ELSE IF a_base = "archer" /\ d_base = "cavalry" THEN 1
        ELSE IF a_base = "archer" /\ d_base = "infantry" THEN -1
        ELSE IF a_base = "cavalry" /\ d_base = "infantry" THEN 1
        ELSE IF a_base = "cavalry" /\ d_base = "archer" THEN -1
        ELSE 0

\* A faulty variant of AttackContribution: against a mixed stack the bonus
\* wins and the penalty is dropped.
AttackContribution_BonusWins(S, u, target) ==
    LET has_adv == \E i \in DOMAIN S.units[target] :
                       get_relationship(unit_type[u], unit_type[S.units[target][i]]) = 1
        has_dis == \E i \in DOMAIN S.units[target] :
                       get_relationship(unit_type[u], unit_type[S.units[target][i]]) = -1
    IN  _calculate_unit_powers(S, u)[1]
            + (IF has_adv THEN 5 ELSE IF has_dis THEN -5 ELSE 0)

\* atk + bonus of one attacker against the defending stack, in tenths.
AttackContribution(S, u, target) ==
    LET has_adv == \E i \in DOMAIN S.units[target] :
                       get_relationship(unit_type[u], unit_type[S.units[target][i]]) = 1
        has_dis == \E i \in DOMAIN S.units[target] :
                       get_relationship(unit_type[u], unit_type[S.units[target][i]]) = -1
    IN  _calculate_unit_powers(S, u)[1]
            + (IF has_adv THEN 5 ELSE 0) - (IF has_dis THEN 5 ELSE 0)

\* current_distance > definition.range * unit_stride * 1.1 (squared, times 100)
OutOfRange(u, pid, target) ==
    LET r == get_definition(unit_type[u]).range
    IN  100 * Dist2(ProvincePos[pid], ProvincePos[target]) > 1452 * r * r

\* The first selection entry that fails the range or the move-point check
\* (0 when none does), and which check it fails.
FirstRejected(S, sel, target) ==
    LET Bad(i) == LET u == S.units[sel[i][1]][sel[i][2]]
                  IN  OutOfRange(u, sel[i][1], target) \/ S.mp[u] < 1
    IN  IF \E i \in DOMAIN sel : Bad(i)
        THEN CHOOSE i \in DOMAIN sel : Bad(i) /\ \A j \in 1..(i - 1) : ~Bad(j)
        ELSE 0

\* participating_attackers: (province, unit_state) per selection entry.
participating_attackers(S, sel) ==
    [i \in DOMAIN sel |-> << sel[i][1], S.units[sel[i][1]][sel[i][2]] >>]

RECURSIVE SumSeq(_)
SumSeq(s) == IF s = <<>> THEN 0 ELSE Head(s) + SumSeq(Tail(s))

total_attack(S, sel, target) ==
    SumSeq([i \in DOMAIN sel |->
               AttackContribution(S, S.units[sel[i][1]][sel[i][2]], target)])

\* total_defense with its 0.1 floor.
total_defense(S, target) ==
    LET sum == SumSeq([i \in DOMAIN S.units[target] |->
                          _calculate_unit_powers(S, S.units[target][i])[2]])
    IN  IF sum <= 1 THEN 1 ELSE sum

\* A faulty variant of is_flanked: every attacker counts, not every tile.
is_flanked_CountsAttackers(sel, target) ==
    Cardinality({ i \in DOMAIN sel :
                    100 * Dist2(ProvincePos[sel[i][1]], ProvincePos[target]) < 1452 }) >= 2

\* neighbor_count >= 2 over the distinct attacker tiles, d < unit_stride * 1.1.
is_flanked(sel, target) ==
    Cardinality({ p \in { sel[i][1] : i \in DOMAIN sel } :
                    100 * Dist2(ProvincePos[p], ProvincePos[target]) < 1452 }) >= 2

\* col_index of the preview.
PreviewColumn(S, sel, target) ==
    get_ratio_column(total_attack(S, sel, target), total_defense(S, target),
                     is_flanked(sel, target))

NoCallback == [col_index |-> 0, attackers |-> <<>>, target |-> 0]

(***************************************************************************)
(* Bounds of the exploration                                               *)
(***************************************************************************)
\* add_selection is explored up to this many selected entries.
MaxSelected == 2

\* The END_TURN button is explored this many times.
MaxTurns == 1

\* A combat is resolved only while it leaves every attack_count at most this.
MaxAttackCount == 3

(***************************************************************************)
(* Load-time data: which units stand where (definitions.csv).              *)
(***************************************************************************)
Scenarios ==
    { \* two like units next to a lone defender
      [ units   |-> [p \in Provinces |->
                        CASE p = 1 -> <<1, 2>> [] p = 2 -> <<3>> [] OTHER -> <<>>],
        types   |-> <<"infantry", "infantry", "archer">>,
        country |-> [p \in Provinces |->
                        CASE p = 1 -> "SHU" [] p \in {2, 4} -> "WEI" [] OTHER -> ""] ],
      \* a full stack and a fourth unit beside it
      [ units   |-> [p \in Provinces |->
                        CASE p = 1 -> <<1, 2, 3>> [] p = 2 -> <<4>> [] OTHER -> <<>>],
        types   |-> <<"infantry", "infantry", "archer", "infantry">>,
        country |-> [p \in Provinces |->
                        CASE p \in {1, 2} -> "SHU" [] p = 4 -> "WEI" [] OTHER -> ""] ] }

\* Two like archers (range 2) next to a lone defender: tile 3, where the
\* defender retreats to, is in range of tile 1 and of tile 2.
ArcherScenarios ==
    { [ units   |-> [p \in Provinces |->
                        CASE p = 1 -> <<1, 2>> [] p = 2 -> <<3>> [] OTHER -> <<>>],
        types   |-> <<"archer", "archer", "infantry">>,
        country |-> [p \in Provinces |->
                        CASE p = 1 -> "SHU" [] p \in {2, 4} -> "WEI" [] OTHER -> ""] ] }

\* The faction buttons of the choosing screen the exploration presses.
FactionButtons == {"SHU"}

\* No pure function has been applied yet.
NoProbe == [fn |-> "none"]

Op(op, note) == [op |-> op, note |-> note]

\* A faulty variant of _replenish_action_points: the terrain rule of the
\* WUDANG_archer is missing.
_replenish_action_points_NoTerrainRule(S) ==
    LET Standing(u) == { p \in DOMAIN S.units : u \in SeqToSet(S.units[p]) }
    IN  [u \in DOMAIN S.mp |->
            IF Standing(u) = {} THEN S.mp[u]
            ELSE get_definition(unit_type[u]).move]

\* _replenish_action_points: mp of every unit standing in a stack.
_replenish_action_points(S) ==
    LET Standing(u) == { p \in DOMAIN S.units : u \in SeqToSet(S.units[p]) }
        MaxMp(u, p) ==
            IF unit_type[u] = "WUDANG_archer" /\ is_mtn(GameMap.terrain[p])
            THEN 3 ELSE get_definition(unit_type[u]).move
    IN  [u \in DOMAIN S.mp |->
            IF Standing(u) = {} THEN S.mp[u]
            ELSE LET p == CHOOSE q \in Standing(u) : \A r \in Standing(u) : r <= q
                 IN  MaxMp(u, p)]

\* The state after GameApp.__init__.
InitWith(scenarios) ==
    /\ state = "LOADING"
    /\ player_country = ""
    /\ \E sc \in scenarios :
          /\ units = sc.units
          /\ country = sc.country
          /\ unit_type = sc.types
          /\ hp = [u \in DOMAIN sc.types |-> 2]
          /\ is_confused = [u \in DOMAIN sc.types |-> FALSE]
          /\ attack_count = [u \in DOMAIN sc.types |-> 0]
          /\ mp = _replenish_action_points(
                      [units |-> sc.units, mp |-> [u \in DOMAIN sc.types |-> 0]])
    /\ selected_units = <<>>
    /\ show_combat_ui = FALSE
    /\ combat_target = 0
    /\ combat_callback = NoCallback
    /\ recover_btn_rect = FALSE
    /\ turns_ended = 0
    /\ last_op = Op("init", "")
    /\ probe = NoProbe

Init == InitWith(Scenarios)

storeVars == <<units, country, hp, is_confused, attack_count, mp>>

SetStore(S) ==
    /\ units' = S.units
    /\ country' = S.country
    /\ hp' = S.hp
    /\ is_confused' = S.is_confused
    /\ attack_count' = S.attack_count
    /\ mp' = S.mp

\* clear_selection(): empties the selection and cancels the preview.
ClearSelection ==
    /\ selected_units' = <<>>
    /\ show_combat_ui' = FALSE
    /\ combat_target' = 0
    /\ combat_callback' = NoCallback

\* _handle_loading_event: the start button.
HandleLoadingEvent ==
    /\ state = "LOADING"
    /\ state' = "CHOOSING"
    /\ last_op' = Op("ui", "")
    /\ UNCHANGED <<player_country, storeVars, unit_type, selected_units, show_combat_ui,
                   combat_target, combat_callback, turns_ended, probe>>

\* _handle_choosing_event: a faction button.
HandleChoosingEvent(c) ==
    /\ state = "CHOOSING"
    /\ player_country' = c
    /\ state' = "PLAYING"
    /\ ClearSelection
    /\ last_op' = Op("ui", "")
    /\ UNCHANGED <<storeVars, unit_type, turns_ended, probe>>

\* _handle_playing_event, KEYDOWN K_ESCAPE
Escape ==
    /\ state = "PLAYING"
    /\ ClearSelection
    /\ last_op' = Op("ui", "")
    /\ UNCHANGED <<state, player_country, storeVars, unit_type, turns_ended, probe>>

\* _handle_playing_event, left click on the unit in slot idx (1-based) of
\* province pid: add_selection / remove_selection.
ClickUnit(pid, idx) ==
    /\ state = "PLAYING"
    /\ idx \in DOMAIN units[pid]
    /\ IF country[pid] # "" /\ country[pid] # player_country
       THEN /\ last_op' = Op("ui", "")
            /\ UNCHANGED selected_units
       ELSE IF \E i \in DOMAIN selected_units : selected_units[i] = <<pid, idx>>
       THEN /\ selected_units' = SelectSeq(selected_units, LAMBDA e : e # <<pid, idx>>)
            /\ last_op' = Op("ui", "")
       ELSE /\ Len(selected_units) < MaxSelected
            /\ selected_units' = Append(selected_units, <<pid, idx>>)
            /\ last_op' = Op("ui", "")
    /\ UNCHANGED <<state, player_country, storeVars, unit_type, show_combat_ui,
                   combat_target, combat_callback, turns_ended, probe>>

\* _handle_game_right_click dispatches on these two.
is_enemy(target) == country[target] # player_country

has_enemy_units(target) == Len(units[target]) > 0

\* _handle_game_right_click on the current combat target: _cancel_combat_preview
CancelCombatPreview(target) ==
    /\ state = "PLAYING"
    /\ selected_units # <<>>
    /\ is_enemy(target) /\ has_enemy_units(target)
    /\ combat_target # 0 /\ combat_target = target
    /\ show_combat_ui' = FALSE
    /\ combat_target' = 0
    /\ combat_callback' = NoCallback
    /\ last_op' = Op("ui", "")
    /\ UNCHANGED <<state, player_country, storeVars, unit_type, selected_units,
                   turns_ended, probe>>

\* A faulty variant of HandleCombat: an accepted preview already charges
\* the attackers their move point.
HandleCombat_ChargesPreview(target) ==
    /\ state = "PLAYING"
    /\ selected_units # <<>>
    /\ is_enemy(target) /\ has_enemy_units(target)
    /\ ~(combat_target # 0 /\ combat_target = target)
    /\ LET bad == FirstRejected(Store, selected_units, target)
       IN  IF bad # 0
           THEN /\ ClearSelection
                /\ last_op' = Op("combat", "no_mp")
                /\ UNCHANGED mp
           ELSE IF total_attack(Store, selected_units, target) <= 0
           THEN /\ last_op' = Op("combat", "attack_too_low")
                /\ UNCHANGED <<selected_units, show_combat_ui, combat_target,
                               combat_callback, mp>>
           ELSE /\ show_combat_ui' = TRUE
                /\ combat_target' = target
                /\ combat_callback' =
                     [ col_index |-> PreviewColumn(Store, selected_units, target),
                       attackers |-> participating_attackers(Store, selected_units),
                       target    |-> target ]
                /\ last_op' = Op("combat", "preview")
                /\ mp' = [u \in DOMAIN mp |->
                             IF \E i \in DOMAIN selected_units :
                                    units[selected_units[i][1]][selected_units[i][2]] = u
                             THEN mp[u] - 1 ELSE mp[u]]
                /\ UNCHANGED selected_units
    /\ UNCHANGED <<state, player_country, units, country, hp, is_confused,
                   attack_count, unit_type, turns_ended, probe>>

\* _handle_combat(target), reached from _handle_game_right_click.
HandleCombat(target) ==
    /\ state = "PLAYING"
    /\ selected_units # <<>>
    /\ is_enemy(target) /\ has_enemy_units(target)
    /\ ~(combat_target # 0 /\ combat_target = target)
    /\ LET bad == FirstRejected(Store, selected_units, target)
       IN  IF bad # 0
           THEN \* clear_selection(clear_ui=False), then the message
                /\ ClearSelection
                /\ last_op' =
                     Op("combat",
                        IF OutOfRange(units[selected_units[bad][1]][selected_units[bad][2]],
                                      selected_units[bad][1], target)
                        THEN "out_of_range" ELSE "no_mp")
           ELSE IF total_attack(Store, selected_units, target) <= 0
           THEN /\ last_op' = Op("combat", "attack_too_low")
                /\ UNCHANGED <<selected_units, show_combat_ui, combat_target,
                               combat_callback>>
           ELSE /\ show_combat_ui' = TRUE
                /\ combat_target' = target
                /\ combat_callback' =
                     [ col_index |-> PreviewColumn(Store, selected_units, target),
                       attackers |-> participating_attackers(Store, selected_units),
                       target    |-> target ]
                /\ last_op' = Op("combat", "preview")
                /\ UNCHANGED selected_units
    /\ UNCHANGED <<state, player_country, storeVars, unit_type, turns_ended, probe>>

\* The mover indices of _handle_movement, ascending.
RECURSIVE SortedIndices(_)
SortedIndices(set) ==
    IF set = {} THEN <<>>
    ELSE LET lo == CHOOSE i \in set : \A j \in set : i <= j
         IN  <<lo>> \o SortedIndices(set \ {lo})

\* self.map_manager.find_path_cost(source, target) on the game map, which
\* does not change during play: the results, tabulated.
path_cost_table ==
    [a \in Provinces |-> [b \in Provinces |-> find_path_cost(GameMap, a, b)]]

\* A faulty variant of MoveOutcome: the stack check is missing.
MoveOutcome_NoStackCheck(S, sel, target) ==
    LET source_ids == { sel[i][1] : i \in DOMAIN sel }
    IN  IF Cardinality(source_ids) > 1 THEN "too_many_sources"
        ELSE LET source == CHOOSE p \in source_ids : TRUE
                 idxs == SortedIndices({ sel[i][2] : i \in DOMAIN sel })
                 path_cost == path_cost_table[source][target]
                 Short(k) == S.mp[S.units[source][idxs[k]]] <= 0
                             \/ S.mp[S.units[source][idxs[k]]] < path_cost
             IN  IF source = target THEN "same_tile"
                 ELSE IF path_cost > 100 THEN "unreachable"
                 ELSE IF \E k \in DOMAIN idxs : Short(k)
                 THEN LET k == CHOOSE k \in DOMAIN idxs :
                                   Short(k) /\ \A j \in 1..(k - 1) : ~Short(j)
                      IN  IF S.mp[S.units[source][idxs[k]]] <= 0
                          THEN "mp_zero" ELSE "mp_short"
                 ELSE "ok"

\* A faulty variant of MoveOutcome: only mp <= 0 is tested, not mp < path_cost.
MoveOutcome_NoCostCheck(S, sel, target) ==
    LET source_ids == { sel[i][1] : i \in DOMAIN sel }
    IN  IF Cardinality(source_ids) > 1 THEN "too_many_sources"
        ELSE LET source == CHOOSE p \in source_ids : TRUE
                 idxs == SortedIndices({ sel[i][2] : i \in DOMAIN sel })
                 path_cost == path_cost_table[source][target]
                 Short(k) == S.mp[S.units[source][idxs[k]]] <= 0
             IN  IF source = target THEN "same_tile"
                 ELSE IF path_cost > 100 THEN "unreachable"
                 ELSE IF \E k \in DOMAIN idxs : Short(k) THEN "mp_zero"
                 ELSE IF Len(S.units[target]) + Len(idxs) > 3 THEN "stack_full"
                 ELSE "ok"

\* How _handle_movement(target) ends: "ok" or the reason of the early return.
MoveOutcome(S, sel, target) ==
    LET source_ids == { sel[i][1] : i \in DOMAIN sel }
    IN  IF Cardinality(source_ids) > 1 THEN "too_many_sources"
        ELSE LET source == CHOOSE p \in source_ids : TRUE
                 idxs == SortedIndices({ sel[i][2] : i \in DOMAIN sel })
                 path_cost == path_cost_table[source][target]
                 Short(k) == S.mp[S.units[source][idxs[k]]] <= 0
                             \/ S.mp[S.units[source][idxs[k]]] < path_cost
             IN  IF source = target THEN "same_tile"
                 ELSE IF path_cost > 100 THEN "unreachable"
                 ELSE IF \E k \in DOMAIN idxs : Short(k)
                 THEN LET k == CHOOSE k \in DOMAIN idxs :
                                   Short(k) /\ \A j \in 1..(k - 1) : ~Short(j)
                      IN  IF S.mp[S.units[source][idxs[k]]] <= 0
                          THEN "mp_zero" ELSE "mp_short"
                 ELSE IF Len(S.units[target]) + Len(idxs) > 3 THEN "stack_full"
                 ELSE "ok"

\* The store after the execution part of _handle_movement.
MoveStore(S, sel, target, player) ==
    LET source == sel[1][1]
        moved == { sel[i][2] : i \in DOMAIN sel }
        idxs == SortedIndices(moved)
        path_cost == path_cost_table[source][target]
        moving_units == [k \in DOMAIN idxs |-> S.units[source][idxs[k]]]
        Times(u) == Cardinality({ k \in DOMAIN moving_units : moving_units[k] = u })
        keep == { i \in DOMAIN S.units[source] : i \notin moved }
        new_source_list == [k \in 1..Cardinality(keep) |->
                               S.units[source][SortedIndices(keep)[k]]]
    IN  [S EXCEPT !.units[source] = new_source_list,
                  !.units[target] = @ \o moving_units,
                  !.mp = [u \in DOMAIN S.mp |-> S.mp[u] - path_cost * Times(u)],
                  !.country[target] = player]

\* _handle_movement(target), reached from _handle_game_right_click.
HandleMovement(target) ==
    /\ state = "PLAYING"
    /\ selected_units # <<>>
    /\ ~(is_enemy(target) /\ has_enemy_units(target))
    /\ LET outcome == MoveOutcome(Store, selected_units, target)
       IN  /\ last_op' = Op("move", outcome)
           /\ IF outcome = "ok"
              THEN /\ SetStore(MoveStore(Store, selected_units, target, player_country))
                   /\ ClearSelection
              ELSE UNCHANGED <<storeVars, selected_units, show_combat_ui,
                               combat_target, combat_callback>>
    /\ UNCHANGED <<state, player_country, unit_type, turns_ended, probe>>

\* The dice button: combat_callback(), i.e. _resolve_combat with the captured
\* col_index, attackers and target; dice is random.randint(1, 6).
ResolveCombat(dice) ==
    /\ state = "PLAYING"
    /\ show_combat_ui
    /\ combat_callback # NoCallback
    /\ \A i \in DOMAIN combat_callback.attackers :
          attack_count[combat_callback.attackers[i][2]]
            + Cardinality({ j \in DOMAIN combat_callback.attackers :
                              combat_callback.attackers[j][2]
                                = combat_callback.attackers[i][2] })
            <= MaxAttackCount
    /\ SetStore(ResolveStore(Store, GameMap, combat_callback.col_index,
                             combat_callback.attackers, combat_callback.target,
                             player_country, dice))
    /\ ClearSelection
    /\ last_op' = Op("resolve", resolve_combat(dice, combat_callback.col_index))
    /\ UNCHANGED <<state, player_country, unit_type, turns_ended, probe>>

\* The END_TURN control button: _manual_end_turn.
ManualEndTurn ==
    /\ state = "PLAYING"
    /\ turns_ended < MaxTurns
    /\ turns_ended' = turns_ended + 1
    /\ mp' = _replenish_action_points(Store)
    /\ last_op' = Op("end_turn", "")
    /\ UNCHANGED <<state, player_country, units, country, hp, is_confused, attack_count,
                   unit_type, selected_units, show_combat_ui, combat_target,
                   combat_callback, probe>>

\* The selected units that are confused (confused_list).
confused_list(S, sel) ==
    SelectSeq([i \in DOMAIN sel |->
                  IF sel[i][2] <= Len(S.units[sel[i][1]])
                  THEN S.units[sel[i][1]][sel[i][2]] ELSE 0],
              LAMBDA u : u # 0 /\ S.is_confused[u])

\* _handle_playing_event, left click inside recover_btn_rect.
Recover ==
    /\ state = "PLAYING"
    /\ recover_btn_rect
    /\ LET cl == confused_list(Store, selected_units)
       IN  IF Len(cl) = 1
           THEN /\ is_confused' = [is_confused EXCEPT ![cl[1]] = FALSE]
                /\ last_op' = Op("recover", "cleared")
           ELSE /\ UNCHANGED is_confused
                /\ last_op' = Op("recover", "nothing")
    /\ UNCHANGED <<state, player_country, units, country, hp, attack_count, mp, unit_type,
                   selected_units, show_combat_ui, combat_target, combat_callback,
                   turns_ended, probe>>

\* One pass of the run loop: the event handler, then _render_gameplay, which
\* outside a combat preview recomputes the recover button (it exists iff
\* exactly one selected unit is confused) and during a preview leaves it.
Frame(Handler) ==
    /\ Handler
    /\ recover_btn_rect' =
         IF state' = "PLAYING" /\ ~show_combat_ui'
         THEN Len(confused_list([units |-> units', is_confused |-> is_confused'],
                                selected_units')) = 1
         ELSE recover_btn_rect

Next ==
    \/ Frame(HandleLoadingEvent)
    \/ \E c \in FactionButtons : Frame(HandleChoosingEvent(c))
    \/ Frame(Escape)
    \/ \E pid \in Provinces : \E idx \in 1..3 : Frame(ClickUnit(pid, idx))
    \/ \E target \in Provinces : Frame(CancelCombatPreview(target))
    \/ \E target \in Provinces : Frame(HandleCombat(target))
    \/ \E target \in Provinces : Frame(HandleMovement(target))
    \/ \E dice \in 1..6 : Frame(ResolveCombat(dice))
    \/ Frame(ManualEndTurn)
    \/ Frame(Recover)

Spec == Init /\ [][Next]_vars

\* The same program started on the archer map.
ArcherInit == InitWith(ArcherScenarios)

ArcherSpec == ArcherInit /\ [][Next]_vars

(***************************************************************************)
(* app.py: the RESTART control button                                      *)
(***************************************************************************)
\* UnitState has no mp field: a unit made by _load_provinces has no mp
\* attribute until _replenish_action_points assigns one.  NoMp stands for
\* the missing attribute; reading it raises AttributeError.
NoMp == -99

\* The load-time data of the running game (the scenarios differ in types).
LoadTime == CHOOSE sc \in Scenarios \cup ArcherScenarios : sc.types = unit_type

\* _restart_game: a new MapManager (fresh units at their load-time tiles),
\* clear_selection, and back to the choosing screen.  _replenish_action_points
\* is not called.
_restart_game ==
    /\ state = "PLAYING"
    /\ units' = LoadTime.units
    /\ country' = LoadTime.country
    /\ hp' = [u \in DOMAIN unit_type |-> 2]
    /\ is_confused' = [u \in DOMAIN unit_type |-> FALSE]
    /\ attack_count' = [u \in DOMAIN unit_type |-> 0]
    /\ mp' = [u \in DOMAIN unit_type |-> NoMp]
    /\ ClearSelection
    /\ player_country' = ""
    /\ state' = "CHOOSING"
    /\ last_op' = Op("restart", "")
    /\ UNCHANGED <<unit_type, turns_ended, probe>>

\* Left click on a selectable unit that has no mp attribute: add_selection
\* appends the entry, then _update_selection_info -> _format_unit_info reads
\* u_state.mp; the AttributeError is not caught and ends GameApp.run.
ClickUnitWithoutMp(pid, idx) ==
    /\ state = "PLAYING"
    /\ idx \in DOMAIN units[pid]
    /\ ~(country[pid] # "" /\ country[pid] # player_country)
    /\ mp[units[pid][idx]] = NoMp
    /\ selected_units' = Append(selected_units, <<pid, idx>>)
    /\ state' = "CRASHED"
    /\ last_op' = Op("crash", "AttributeError")
    /\ UNCHANGED <<player_country, storeVars, unit_type, show_combat_ui,
                   combat_target, combat_callback, turns_ended, probe>>

\* Every unit standing in a stack has an mp attribute.
MpAssigned == \A p \in Provinces : \A i \in DOMAIN units[p] : mp[units[p][i]] # NoMp

\* The game with the RESTART button.  While units lack the mp attribute the
\* handlers that do not read it run as usual (the choosing screen, ESC, the
\* END_TURN button, which assigns it), and a click on a unit ends the run.
RestartNext ==
    \/ (MpAssigned \/ state # "PLAYING") /\ Next
    \/ Frame(_restart_game)
    \/ ~MpAssigned /\ Frame(Escape)
    \/ ~MpAssigned /\ Frame(ManualEndTurn)
    \/ ~MpAssigned /\ \E pid \in Provinces : \E idx \in 1..3 : Frame(ClickUnitWithoutMp(pid, idx))

RestartSpec == Init /\ [][RestartNext]_vars

TypeOK ==
    /\ state \in {"LOADING", "CHOOSING", "PLAYING"}
    /\ player_country \in {""} \cup FactionButtons
    /\ \A p \in Provinces : SeqToSet(units[p]) \subseteq DOMAIN unit_type
    /\ \A u \in DOMAIN unit_type : unit_type[u] \in UnitTypes
    /\ show_combat_ui \in BOOLEAN
    /\ recover_btn_rect \in BOOLEAN
    /\ combat_target \in Provinces \cup {0}
    /\ turns_ended \in 0..MaxTurns

(***************************************************************************)
(* Pure functions, applied to arguments drawn from bounded sets.  The      *)
(* game variables keep the values of a freshly constructed program with no *)
(* units on the map; probe records the call and its result.  The functions *)
(* keep no state between calls, so each behaviour makes one call.          *)
(***************************************************************************)
PureInit(types) ==
    /\ state = "LOADING"
    /\ player_country = ""
    /\ units = [p \in Provinces |-> <<>>]
    /\ country = [p \in Provinces |-> ""]
    /\ unit_type = types
    /\ hp = [u \in DOMAIN types |-> 2]
    /\ is_confused = [u \in DOMAIN types |-> FALSE]
    /\ attack_count = [u \in DOMAIN types |-> 0]
    /\ mp = [u \in DOMAIN types |-> 0]
    /\ selected_units = <<>>
    /\ show_combat_ui = FALSE
    /\ combat_target = 0
    /\ combat_callback = NoCallback
    /\ recover_btn_rect = FALSE
    /\ turns_ended = 0
    /\ last_op = Op("init", "")
    /\ probe = NoProbe

(***************************************************************************)
(* combat.py applied: get_ratio_column and resolve_combat                  *)
(***************************************************************************)
\* Powers run over the multiples of 0.5 up to MaxPowerSteps halves (in tenths).
MaxPowerSteps == 20

\* Columns are tried from -ColumnSlack up to 5 + ColumnSlack.
ColumnSlack == 2

AttackValues == { 5 * k : k \in 0..MaxPowerSteps }

\* The defense values: the multiples of 0.5 from -0.5 on, and the 0.1 floor.
DefenseValues == { 5 * k : k \in (0 - 1)..MaxPowerSteps } \cup {1}

Apply_get_ratio_column(a, d, f) ==
    /\ probe' = [ fn |-> "get_ratio_column", attack_power |-> a, defense_power |-> d,
                  is_flanked |-> f, result |-> get_ratio_column(a, d, f) ]
    /\ UNCHANGED gameVars

Apply_resolve_combat(dice, ratio_col) ==
    /\ probe' = [ fn |-> "resolve_combat", dice |-> dice, ratio_col |-> ratio_col,
                  result |-> resolve_combat(dice, ratio_col) ]
    /\ UNCHANGED gameVars

CrtInit == PureInit(<<>>)

CrtNext ==
    /\ probe = NoProbe
    /\ \/ \E a \in AttackValues : \E d \in DefenseValues : \E f \in BOOLEAN :
             Apply_get_ratio_column(a, d, f)
       \/ \E dice \in 1..6 : \E ratio_col \in (0 - ColumnSlack)..(5 + ColumnSlack) :
             Apply_resolve_combat(dice, ratio_col)

CrtSpec == CrtInit /\ [][CrtNext]_vars

(***************************************************************************)
(* map_manager.py applied: find_path_cost on every small map               *)
(***************************************************************************)
\* The maps have the tiles 1..MaxTiles, with every edge set, terrain and
\* flag set, and the tiles 1..MaxTiles + 1 with two routes of two edges from
\* start to target; id 0 is an id no map knows.
MaxTiles == 3

\* The terrain tag of a rough tile (two of the spellings the code accepts).
RoughTag(i) == IF i % 2 = 1 THEN "Hill" ELSE "mountains"

\* The map over the tiles 1..n with the undirected edge set edges (pairs
\* <<a, b>> in either order), the rough tiles rough and the flagged directed
\* edges river; neighbour lists are in id order, as the builder makes them.
MapOf(n, edges, rough, river) ==
    [ terrain |-> [i \in 1..n |-> IF i \in rough THEN RoughTag(i) ELSE "plain"],
      _adjacency |->
          [i \in 1..n |->
              SelectSeq([k \in 1..n |-> k],
                        LAMBDA j : <<i, j>> \in edges \/ <<j, i>> \in edges)],
      _river_crossing_edges |-> river ]

\* The four edges of the two routes from s to t over the other two tiles.
RouteEdges(n, s, t) ==
    UNION { { <<s, a>>, <<a, t>> } : a \in (1..n) \ {s, t} }

Apply_find_path_cost(m, start_id, target_id) ==
    /\ probe' = [ fn |-> "find_path_cost", m |-> m,
                  start_id |-> start_id, target_id |-> target_id,
                  result |-> find_path_cost(m, start_id, target_id) ]
    /\ UNCHANGED gameVars

PathInit == PureInit(<<>>)

PathNext ==
    /\ probe = NoProbe
    /\ \/ \E edges \in SUBSET { e \in (1..MaxTiles) \X (1..MaxTiles) : e[1] < e[2] } :
            \E rough \in SUBSET (1..MaxTiles) :
              \E river \in SUBSET { e \in (1..MaxTiles) \X (1..MaxTiles) :
                                      <<e[1], e[2]>> \in edges \/ <<e[2], e[1]>> \in edges } :
                \E start_id \in 0..MaxTiles : \E target_id \in 0..MaxTiles :
                  Apply_find_path_cost(MapOf(MaxTiles, edges, rough, river),
                                       start_id, target_id)
       \/ \E start_id \in 1..(MaxTiles + 1) :
            \E target_id \in (1..(MaxTiles + 1)) \ {start_id} :
              \E rough \in SUBSET (1..(MaxTiles + 1)) :
                \E river \in SUBSET RouteEdges(MaxTiles + 1, start_id, target_id) :
                  \E back \in BOOLEAN :
                    Apply_find_path_cost(
                        MapOf(MaxTiles + 1,
                              RouteEdges(MaxTiles + 1, start_id, target_id), rough,
                              river \cup
                                (IF back
                                 THEN { <<e[2], e[1]>> :
                                          e \in RouteEdges(MaxTiles + 1, start_id, target_id) }
                                 ELSE {})),
                        start_id, target_id)

PathSpec == PathInit /\ [][PathNext]_vars

(***************************************************************************)
(* app.py applied: _apply_damage on every small stack                      *)
(***************************************************************************)
\* The stacks are made of the units 1..MaxUnits.
MaxUnits == 3

\* _apply_damage is applied with 1..MaxDamage points.
MaxDamage == 2

\* The types of the units of the stacks: defense 3 and defense 5.
DamageTypes == {"infantry", "JIEFAN_infantry"}

\* The sequences without repetition over the set s, of length 1..Cardinality(s).
RECURSIVE Arrangements(_)
Arrangements(s) ==
    IF s = {} THEN {}
    ELSE { <<u>> : u \in s }
           \cup UNION { { <<u>> \o r : r \in Arrangements(s \ {u}) } : u \in s }

Apply_apply_damage(lst, h, amount) ==
    LET S == [ units |-> units, country |-> country, hp |-> h,
               is_confused |-> is_confused, attack_count |-> attack_count, mp |-> mp ]
    IN  /\ probe' = [ fn |-> "_apply_damage", units |-> lst, hp |-> h, amount |-> amount,
                      result |-> _apply_damage(S, lst, amount) ]
        /\ UNCHANGED gameVars

DamageInit == \E types \in [1..MaxUnits -> DamageTypes] : PureInit(types)

DamageNext ==
    /\ probe = NoProbe
    /\ \E lst \in Arrangements(1..MaxUnits) : \E h \in [1..MaxUnits -> 0..2] :
         \E amount \in 1..MaxDamage :
           Apply_apply_damage(lst, h, amount)

DamageSpec == DamageInit /\ [][DamageNext]_vars

(***************************************************************************)
(* app.py applied: _apply_confusion on every small stack                   *)
(***************************************************************************)
Apply_apply_confusion(lst, h, c) ==
    LET S == [ units |-> units, country |-> country, hp |-> h,
               is_confused |-> c, attack_count |-> attack_count, mp |-> mp ]
    IN  /\ probe' = [ fn |-> "_apply_confusion", units |-> lst, hp |-> h,
                      is_confused |-> c, result |-> _apply_confusion(S, lst) ]
        /\ UNCHANGED gameVars

ConfusionInit == \E types \in [1..MaxUnits -> DamageTypes] : PureInit(types)

ConfusionNext ==
    /\ probe = NoProbe
    /\ \E lst \in Arrangements(1..MaxUnits) : \E h \in [1..MaxUnits -> 0..2] :
         \E c \in [1..MaxUnits -> BOOLEAN] :
           Apply_apply_confusion(lst, h, c)

ConfusionSpec == ConfusionInit /\ [][ConfusionNext]_vars

(***************************************************************************)
(* app.py applied: _manual_end_turn on every small placement of units      *)
(***************************************************************************)
\* The units 1..MaxStanding are placed on the tiles of the game map.
MaxStanding == 2

\* The types placed: move 1, move 2, and the type with the terrain rule.
EndTurnTypes == {"infantry", "cavalry", "WUDANG_archer"}

\* The stacks of a placement: tile of each unit (0: not on the map), each
\* stack in ascending unit order.
StacksOf(place) ==
    [p \in Provinces |->
        SortedIndices({ u \in DOMAIN place : place[u] = p })]

EndTurnInit ==
    /\ state = "PLAYING"
    /\ player_country = "SHU"
    /\ \E place \in [1..MaxStanding -> Provinces \cup {0}] : units = StacksOf(place)
    /\ country = [p \in Provinces |-> ""]
    /\ unit_type \in [1..MaxStanding -> EndTurnTypes]
    /\ hp = [u \in 1..MaxStanding |-> 2]
    /\ is_confused = [u \in 1..MaxStanding |-> FALSE]
    /\ attack_count = [u \in 1..MaxStanding |-> 0]
    /\ mp \in [1..MaxStanding -> 0..1]
    /\ selected_units = <<>>
    /\ show_combat_ui = FALSE
    /\ combat_target = 0
    /\ combat_callback = NoCallback
    /\ recover_btn_rect = FALSE
    /\ turns_ended = 0
    /\ last_op = Op("init", "")
    /\ probe = NoProbe

EndTurnNext ==
    /\ last_op = Op("init", "")
    /\ Frame(ManualEndTurn)

EndTurnSpec == EndTurnInit /\ [][EndTurnNext]_vars

(***************************************************************************)
(* app.py applied: _handle_retreat on the game map                         *)
(***************************************************************************)
\* The units 1..MaxRetreatUnits stand on the defender tile and its plain
\* neighbours.
MaxRetreatUnits == 4

\* The defender tile of the calls: tile 2, with the neighbours 1, 3 and 4
\* (tile 4 is a hill).
RetreatTile == CHOOSE p \in Provinces : Len(GameMap._adjacency[p]) = 3

RetreatTypes ==
    [u \in 1..MaxRetreatUnits |-> IF u = 2 THEN "JIEFAN_infantry" ELSE "infantry"]

Apply_handle_retreat(place, owner, h) ==
    LET S == [ units |-> StacksOf(place), country |-> owner, hp |-> h,
               is_confused |-> is_confused, attack_count |-> attack_count, mp |-> mp ]
    IN  /\ probe' = [ fn |-> "_handle_retreat", S |-> S, start_id |-> RetreatTile,
                      result |-> _handle_retreat(S, GameMap, RetreatTile) ]
        /\ UNCHANGED gameVars

RetreatInit == PureInit(RetreatTypes)

RetreatNext ==
    /\ probe = NoProbe
    /\ \E place \in [1..MaxRetreatUnits -> {1, 2, 3}] :
         \E owner \in [Provinces -> {"", "SHU", "WEI"}] :
           \E h \in [1..MaxRetreatUnits -> 0..2] :
             /\ owner[RetreatTile] # "SHU"
             /\ owner[4] = "WEI" /\ owner[5] = ""
             \* the damage of the same resolution has killed at most one
             \* defender, and the dead of earlier combats were cleaned up
             /\ Cardinality({ u \in DOMAIN h : h[u] = 0 }) <= 1
             /\ \A u \in DOMAIN h : h[u] = 0 => place[u] = RetreatTile
             /\ Apply_handle_retreat(place, owner, h)

RetreatSpec == RetreatInit /\ [][RetreatNext]_vars

(***************************************************************************)
(* map_manager.py applied: _build_adjacency_graph                          *)
(***************************************************************************)
\* Tile coordinates and polyline points lie on the grid 0..GridMax squared.
GridMax == 3

GridPoints == (0..GridMax) \X (0..GridMax)

\* Two tiles at pos, and one polyline of two points that is a river or an
\* impassable boundary.
Apply_build_adjacency_graph(pos, polyline, kind) ==
    LET river == IF kind = "river" THEN << polyline >> ELSE << >>
        ban   == IF kind = "ban" THEN << polyline >> ELSE << >>
    IN  /\ probe' = [ fn |-> "_build_adjacency_graph", pos |-> pos,
                      polyline |-> polyline, kind |-> kind,
                      result |-> _build_adjacency_graph(<<1, 2>>, pos, river, ban) ]
        /\ UNCHANGED gameVars

AdjacencyInit == PureInit(<< >>)

AdjacencyNext ==
    /\ probe = NoProbe
    /\ \E a \in GridPoints, b \in GridPoints, c \in GridPoints, d \in GridPoints :
         \E kind \in {"river", "ban"} :
           /\ a # b
           /\ Apply_build_adjacency_graph(<<a, b>>, <<c, d>>, kind)

AdjacencySpec == AdjacencyInit /\ [][AdjacencyNext]_vars

(***************************************************************************)
(* app.py applied: the advance step of _resolve_combat                     *)
(***************************************************************************)
\* Up to MaxAttackers attackers take part in the combats whose advance is
\* applied.
MaxAttackers == 3

\* The attackers lists over a placement: up to MaxAttackers units that do not
\* stand on the target tile, in any order, each with the tile it stands on;
\* a unit off the map is an attacker killed in this combat and removed by
\* the cleanup, its tile was tile 1.
AttackerLists(place, target) ==
    LET cand == { u \in DOMAIN place : place[u] # target }
        Entry(u) == << IF place[u] = 0 THEN 1 ELSE place[u], u >>
    IN  { [i \in DOMAIN a |-> Entry(a[i])] :
            a \in { x \in Arrangements(cand) : Len(x) <= MaxAttackers } }

Apply_advance(place, h, attackers) ==
    LET S == [ units |-> StacksOf(place), country |-> country, hp |-> h,
               is_confused |-> is_confused, attack_count |-> attack_count, mp |-> mp ]
    IN  /\ probe' = [ fn |-> "_advance_after_combat", S |-> S, attackers |-> attackers,
                      target |-> RetreatTile, player |-> "SHU",
                      result |-> AdvanceIfEmpty(S, attackers, RetreatTile, "SHU") ]
        /\ UNCHANGED gameVars

\* All units are of one type, so that units of equal hp are equal.
AdvanceInit == PureInit([u \in 1..MaxRetreatUnits |-> "infantry"])

AdvanceNext ==
    /\ probe = NoProbe
    /\ \E place \in [1..MaxRetreatUnits -> {0, 1, 2, 3}] :
         \E h \in [1..MaxRetreatUnits -> 0..2] :
           /\ \A u \in DOMAIN h : h[u] = 0 <=> place[u] = 0
           /\ \E attackers \in AttackerLists(place, RetreatTile) :
                 Apply_advance(place, h, attackers)

AdvanceSpec == AdvanceInit /\ [][AdvanceNext]_vars

(***************************************************************************)
(* app.py applied: _resolve_combat on every small engagement               *)
(***************************************************************************)
\* Units 1 and 2 have defense 3, unit 3 has defense 5.
ResolutionTypes ==
    [u \in 1..MaxUnits |-> IF u = MaxUnits THEN "JIEFAN_infantry" ELSE "infantry"]

\* The attackers lists of the player over a store: one or two units, in any
\* order, that stand outside the target on tiles the player may select from.
SelectableAttackers(place, owner, target, player) ==
    LET cand == { u \in DOMAIN place :
                    place[u] # target /\ owner[place[u]] \in {"", player} }
    IN  { [i \in DOMAIN a |-> << place[a[i]], a[i] >>] :
            a \in { x \in Arrangements(cand) : Len(x) <= MaxSelected } }

Apply_resolve(place, owner, h, c, attackers, col_index, dice) ==
    LET S == [ units |-> StacksOf(place), country |-> owner, hp |-> h,
               is_confused |-> c, attack_count |-> attack_count,
               mp |-> [u \in DOMAIN mp |-> 1] ]
    IN  /\ probe' = [ fn |-> "_resolve_combat", S |-> S, attackers |-> attackers,
                      target |-> RetreatTile, player |-> "SHU",
                      code |-> resolve_combat(dice, col_index),
                      result |-> ResolveStore(S, GameMap, col_index, attackers,
                                              RetreatTile, "SHU", dice) ]
        /\ UNCHANGED gameVars

ResolutionInit == PureInit(ResolutionTypes)

\* Living units on the target tile 2 (owned by WEI) and on its plain
\* neighbours 1 (owned by SHU) and 3 (any owner); the attackers are SHU's.
ResolutionNext ==
    /\ probe = NoProbe
    /\ \E place \in [1..MaxUnits -> {1, 2, 3}] :
         \E own3 \in {"", "SHU", "WEI"} :
           \E h \in [1..MaxUnits -> 1..2] :
             \E c \in [1..MaxUnits -> BOOLEAN] :
               LET owner == [p \in Provinces |->
                               CASE p = 1 -> "SHU"
                                 [] p = 3 -> own3
                                 [] p = 5 -> ""
                                 [] OTHER -> "WEI"]
               IN  /\ \E u \in DOMAIN place : place[u] = RetreatTile
                   /\ \E attackers \in SelectableAttackers(place, owner, RetreatTile, "SHU") :
                        \E col_index \in 0..5 : \E dice \in 1..6 :
                          Apply_resolve(place, owner, h, c, attackers, col_index, dice)

ResolutionSpec == ResolutionInit /\ [][ResolutionNext]_vars

(***************************************************************************)
(* app.py applied: the flanking test of _handle_combat                     *)
(***************************************************************************)
\* Up to MaxAttackers attackers, each from any tile (slot 1 of the tile).
Apply_is_flanked(tiles, target) ==
    LET sel == [i \in DOMAIN tiles |-> << tiles[i], 1 >>]
    IN  /\ probe' = [ fn |-> "is_flanked", sel |-> sel, target |-> target,
                      result |-> is_flanked(sel, target) ]
        /\ UNCHANGED gameVars

FlankInit == PureInit(<< >>)

FlankNext ==
    /\ probe = NoProbe
    /\ \E n \in 1..MaxAttackers : \E tiles \in [1..n -> Provinces] :
         \E target \in Provinces :
           Apply_is_flanked(tiles, target)

FlankSpec == FlankInit /\ [][FlankNext]_vars

(***************************************************************************)
(* app.py applied: the power sums of _handle_combat                        *)
(***************************************************************************)
\* The archetypes of the units of the engagements.
PowerTypes == {"infantry", "cavalry", "archer"}

\* The selections over the stack of tile pid: one or more of its slots, in
\* any order.
SlotSelections(pid, n) ==
    { [i \in DOMAIN a |-> << pid, a[i] >>] : a \in Arrangements(1..n) }

Apply_powers(place, h, c, sel, target) ==
    LET S == [ units |-> StacksOf(place), country |-> country, hp |-> h,
               is_confused |-> c, attack_count |-> attack_count, mp |-> mp ]
    IN  /\ probe' = [ fn |-> "_handle_combat", S |-> S, sel |-> sel, target |-> target,
                      total_attack |-> total_attack(S, sel, target),
                      total_defense |-> total_defense(S, target) ]
        /\ UNCHANGED gameVars

PowerInit == \E types \in [1..MaxUnits -> PowerTypes] : PureInit(types)

\* The attackers stand on tile 1 and the defenders on tile 2, all alive.
PowerNext ==
    /\ probe = NoProbe
    /\ \E place \in [1..MaxUnits -> {1, 2}] :
         \E h \in [1..MaxUnits -> 1..2] : \E c \in [1..MaxUnits -> BOOLEAN] :
           /\ \E u \in DOMAIN place : place[u] = 1
           /\ \E u \in DOMAIN place : place[u] = 2
           /\ \E sel \in SlotSelections(1, Cardinality({ u \in DOMAIN place : place[u] = 1 })) :
                 Apply_powers(place, h, c, sel, 2)

PowerSpec == PowerInit /\ [][PowerNext]_vars

(***************************************************************************)
(* Properties of the pure functions                                        *)
(***************************************************************************)
\* The simple paths of the map m from s to t, as sequences of tiles.
C6_Paths(m, s, t) ==
    { p \in UNION { [1..k -> DOMAIN m.terrain] : k \in 2..Cardinality(DOMAIN m.terrain) } :
        /\ p[1] = s
        /\ p[Len(p)] = t
        /\ \A i, j \in DOMAIN p : i # j => p[i] # p[j]
        /\ \A i \in 1..(Len(p) - 1) : p[i + 1] \in SeqToSet(m._adjacency[p[i]]) }

\* Edges, plus rough tiles entered, plus 1 for a rough start, plus flagged
\* directed edges traversed.
C6_CostOf(m, p) ==
    (Len(p) - 1)
      + Cardinality({ i \in 2..Len(p) : is_mtn(m.terrain[p[i]]) })
      + (IF is_mtn(m.terrain[p[1]]) THEN 1 ELSE 0)
      + Cardinality({ i \in 1..(Len(p) - 1) : <<p[i], p[i + 1]>> \in m._river_crossing_edges })

\* C6: find_path_cost(start, target) is 0 when start = target (rough or
\* not); otherwise, when a path exists, it is the least cost over all paths
\* (a path with a repeated tile costs more than the simple path inside it)
\* and lies below 9000; and when no path exists or start is an id the map
\* does not know it is a sentinel of at least 9000.
C6_PathCostIsMinimum ==
    probe.fn = "find_path_cost" =>
        LET m == probe.m
            s == probe.start_id
            t == probe.target_id
            paths == IF s \in DOMAIN m.terrain /\ t \in DOMAIN m.terrain
                     THEN C6_Paths(m, s, t) ELSE {}
        IN  IF s = t THEN probe.result = 0
            ELSE IF paths # {}
            THEN /\ \E p \in paths : probe.result = C6_CostOf(m, p)
                 /\ \A p \in paths : probe.result <= C6_CostOf(m, p)
                 /\ probe.result < 9000
            ELSE probe.result >= 9000

\* C6, reached: from a rough start two routes of two edges lead to the
\* target, one strictly cheaper than the other, and the result is the
\* cheaper one's cost.
C6_CheaperRoute ==
    /\ probe.fn = "find_path_cost"
    /\ probe.start_id \in DOMAIN probe.m.terrain
    /\ probe.target_id \in DOMAIN probe.m.terrain
    /\ is_mtn(probe.m.terrain[probe.start_id])
    /\ \E p, q \in C6_Paths(probe.m, probe.start_id, probe.target_id) :
          /\ Len(p) = 3 /\ Len(q) = 3
          /\ C6_CostOf(probe.m, p) < C6_CostOf(probe.m, q)
          /\ probe.result = C6_CostOf(probe.m, p)

C8_FlankShiftsOneColumn ==
    (probe.fn = "get_ratio_column" /\ probe.is_flanked) =>
        /\ probe.result
             = Min(5, get_ratio_column(probe.attack_power, probe.defense_power, FALSE) + 1)
        /\ probe.result \in 0..5

\* C8, reached: a flanked attack whose unflanked column is already 5.
C8_FlankedAtTopColumn ==
    /\ probe.fn = "get_ratio_column"
    /\ probe.is_flanked
    /\ probe.defense_power > 0
    /\ get_ratio_column(probe.attack_power, probe.defense_power, FALSE) = 5
    /\ probe.result = 5

\* The combat results table as the specification prints it: one row per
\* dice value 1..6, one entry per column 0..5.
C9_Table ==
    << <<"A2", "A1",    "A1",    "C",  "C",  "DG">>,
       <<"A1", "AG",    "AG&DG", "DG", "DG", "DG">>,
       <<"AG", "AG&DG", "C",     "DG", "DR", "DR">>,
       <<"AG", "C",     "DG",    "DR", "DR", "DR">>,
       <<"C",  "DG",    "DR",    "DR", "D1", "D1">>,
       <<"DG", "DR",    "D1",    "D1", "D1", "D1R">> >>

\* C9: for every dice value 1..6, resolve_combat(dice, column) is the table
\* entry of that row and column, a column outside 0..5 being clamped into
\* 0..5 first.
C9_ResolveIsTableLookup ==
    (probe.fn = "resolve_combat" /\ probe.dice \in 1..6) =>
        LET column == IF probe.ratio_col < 0 THEN 0
                      ELSE IF probe.ratio_col > 5 THEN 5 ELSE probe.ratio_col
        IN  probe.result = C9_Table[probe.dice][column + 1]

\* C9, reached: a negative column is looked up as column 0.
C9_ClampedColumn ==
    /\ probe.fn = "resolve_combat"
    /\ probe.dice = 1
    /\ probe.ratio_col < 0
    /\ probe.result = "A2"

\* The slot i of the stack lst is the one a damage point goes to: a living
\* unit such that no living unit is less injured, none of equal injury
\* status has a lower defense, and none equal in both stands earlier.
C10_Chosen(h, lst, i) ==
    LET inj(k) == IF h[lst[k]] < 2 THEN 1 ELSE 0
        def(k) == get_definition(unit_type[lst[k]]).defense
    IN  /\ h[lst[i]] > 0
        /\ \A j \in DOMAIN lst :
              h[lst[j]] > 0 =>
                  \/ inj(i) < inj(j)
                  \/ inj(i) = inj(j) /\ def(i) < def(j)
                  \/ inj(i) = inj(j) /\ def(i) = def(j) /\ i <= j

\* h2 is h1 after n damage points on the stack lst, each going to the
\* chosen slot of the moment; without a living unit the points are lost.
RECURSIVE C10_After(_, _, _, _)
C10_After(h1, h2, lst, n) ==
    IF n = 0 \/ \A i \in DOMAIN lst : h1[lst[i]] <= 0 THEN h2 = h1
    ELSE \E i \in DOMAIN lst :
            /\ C10_Chosen(h1, lst, i)
            /\ C10_After([h1 EXCEPT ![lst[i]] = @ - 1], h2, lst, n - 1)

\* C10: every damage point goes to one living unit of the stack, chosen anew
\* for each point (uninjured before injured, then lowest defense, then
\* earliest in the stack); that unit loses exactly 1 hp and nothing else
\* changes.
C10_DamageTargeting ==
    probe.fn = "_apply_damage" =>
        /\ C10_After(probe.hp, probe.result.hp, probe.units, probe.amount)
        /\ probe.result.units = units
        /\ probe.result.country = country
        /\ probe.result.is_confused = is_confused
        /\ probe.result.attack_count = attack_count
        /\ probe.result.mp = mp

\* C10, reached: two uninjured units of defense 3 and 5 (the defense-5 unit
\* first in the stack) take two points and end with 1 hp each.
C10_ThreeThenFive ==
    /\ probe.fn = "_apply_damage"
    /\ probe.amount = 2
    /\ Len(probe.units) = 2
    /\ get_definition(unit_type[probe.units[1]]).defense = 5
    /\ get_definition(unit_type[probe.units[2]]).defense = 3
    /\ probe.hp[probe.units[1]] = 2 /\ probe.hp[probe.units[2]] = 2
    /\ probe.result.hp[probe.units[1]] = 1 /\ probe.result.hp[probe.units[2]] = 1

(***************************************************************************)
(* Properties of the game                                                  *)
(***************************************************************************)
\* C1: in every reachable state no tile's stack holds more than 3 units.
C1_StackLimit ==
    \A p \in Provinces : Len(units[p]) <= 3

\* C1, reached: a move has just been carried out and filled a stack to 3.
C1_StackFilledByMove ==
    /\ last_op = Op("move", "ok")
    /\ \E p \in Provinces : Len(units[p]) = 3

\* C2: after a combat resolution no stack on the map holds a unit with
\* hp <= 0.
C2_NoDeadUnitAfterCombat ==
    last_op.op = "resolve" =>
        \A p \in Provinces : \A i \in DOMAIN units[p] : hp[units[p][i]] > 0

\* How often the unit u occurs in the stacks of the map.
C3_Occurrences(u) ==
    Cardinality({ e \in Provinces \X (1..(3 + 1)) :
                    e[2] \in DOMAIN units[e[1]] /\ units[e[1]][e[2]] = u })

\* C3: every unit occurs in at most one stack, at most once, and a unit
\* that is in no stack has hp <= 0.
C3_UnitsConserved ==
    \A u \in DOMAIN unit_type :
        /\ C3_Occurrences(u) <= 1
        /\ C3_Occurrences(u) = 0 => hp[u] <= 0

\* C4: a combat request (the preview) changes no unit's hp, confusion flag,
\* move points or attack_count and no tile's stack or owner, whether it is
\* accepted or rejected; and a rejected request arms no dice callback.
C4_PreviewLeavesStore ==
    [][ last_op'.op = "combat" =>
            /\ units' = units /\ country' = country /\ hp' = hp
            /\ is_confused' = is_confused /\ mp' = mp
            /\ attack_count' = attack_count
            /\ last_op'.note # "preview" =>
                   combat_callback' \in {NoCallback, combat_callback} ]_vars

\* C4, reached: a request was rejected because an attacker had no move
\* point left, after that attacker had fought.
C4_RejectedForMovePoints ==
    /\ last_op = Op("combat", "no_mp")
    /\ \E u \in DOMAIN attack_count : attack_count[u] > 0 /\ mp[u] < 1

\* The move request of the selection to target has to be rejected: units of
\* more than one tile, or an unreachable target, or a unit with move points
\* <= 0 or below the path cost, or a stack that would exceed 3.
C5_MustReject(target) ==
    LET sources == { selected_units[i][1] : i \in DOMAIN selected_units }
    IN  \/ Cardinality(sources) > 1
        \/ \E source \in sources :
              LET cost == find_path_cost(GameMap, source, target)
              IN  \/ cost >= 9000
                  \/ \E i \in DOMAIN selected_units :
                        LET u == units[selected_units[i][1]][selected_units[i][2]]
                        IN  mp[u] <= 0 \/ mp[u] < cost
                  \/ Len(units[target]) + Len(selected_units) > 3

\* C5: a move request that has to be rejected changes no unit's move
\* points, no tile's stack and no tile's owner.  Stated for the requests
\* that do change one of them: such a request has put units on its target
\* tile, and it was not one that had to be rejected.
C5_RejectedMoveChangesNothing ==
    [][ (last_op'.op = "move" /\ <<units, country, mp>>' # <<units, country, mp>>) =>
            \E target \in Provinces :
                /\ Len(units'[target]) > Len(units[target])
                /\ ~C5_MustReject(target) ]_vars

\* C5, reached: a move of units that all had the move points for it was
\* rejected because the target stack would have exceeded 3.
C5_RejectedForStack ==
    /\ last_op = Op("move", "stack_full")
    /\ selected_units # <<>>
    /\ \A i \in DOMAIN selected_units :
          mp[units[selected_units[i][1]][selected_units[i][2]]] >= 1

\* C11: a confusion point goes to the living unit the damage rule selects
\* (uninjured before injured, then lowest defense, then earliest in the
\* stack).  A selected unit that is not confused becomes confused and keeps
\* its hp; one that is already confused loses 1 hp and stays confused, also
\* when another living unit of the stack is not confused.  Nothing else
\* changes, and without a living unit nothing changes at all.
C11_ConfusionPoint ==
    probe.fn = "_apply_confusion" =>
        LET h == probe.hp
            c == probe.is_confused
            lst == probe.units
        IN  /\ probe.result.units = units
            /\ probe.result.country = country
            /\ probe.result.attack_count = attack_count
            /\ probe.result.mp = mp
            /\ IF \A i \in DOMAIN lst : h[lst[i]] <= 0
               THEN probe.result.hp = h /\ probe.result.is_confused = c
               ELSE \E i \in DOMAIN lst :
                      /\ C10_Chosen(h, lst, i)
                      /\ IF c[lst[i]]
                         THEN /\ probe.result.hp = [h EXCEPT ![lst[i]] = @ - 1]
                              /\ probe.result.is_confused = c
                         ELSE /\ probe.result.hp = h
                              /\ probe.result.is_confused = [c EXCEPT ![lst[i]] = TRUE]

\* C11, reached: the selected unit was already confused while another living
\* unit of the stack was not; the selected unit lost 1 hp and the other unit
\* is still not confused.
C11_EscalatesBesideUnconfused ==
    /\ probe.fn = "_apply_confusion"
    /\ \E i, j \in DOMAIN probe.units :
          /\ i # j
          /\ C10_Chosen(probe.hp, probe.units, i)
          /\ probe.is_confused[probe.units[i]]
          /\ probe.hp[probe.units[j]] > 0
          /\ ~probe.is_confused[probe.units[j]]
          /\ probe.result.hp[probe.units[i]] = probe.hp[probe.units[i]] - 1
          /\ ~probe.result.is_confused[probe.units[j]]

\* C12: a resolved combat, whatever its result code, leaves every
\* participating attacker with attack_count one higher and move points one
\* lower than before, and confused if its attack_count is then 2 or more;
\* under a result code without attacker loss or attacker confusion the hp
\* of an attacker that is not itself in the defending stack does not change.
C12_FatigueAfterResolution ==
    [][ last_op'.op = "resolve" =>
          \A i \in DOMAIN combat_callback.attackers :
             LET u == combat_callback.attackers[i][2]
             IN  /\ attack_count'[u] = attack_count[u] + 1
                 /\ mp'[u] = mp[u] - 1
                 /\ (attack_count'[u] >= 2 => is_confused'[u])
                 /\ ( ( /\ last_op'.note \in {"C", "DG", "DR", "D1", "D1R"}
                        /\ u \notin SeqToSet(units[combat_callback.target]) )
                      => hp'[u] = hp[u] )
      ]_vars

\* C13: the end-turn operation leaves every unit standing on the map with
\* attack_count 0, so that attack_count counts the attacks of the current
\* turn only.
C13_AttackCountResetAtEndTurn ==
    last_op.op = "end_turn" =>
        \A p \in Provinces : \A i \in DOMAIN units[p] : attack_count[units[p][i]] = 0

\* C14: the end-turn operation gives every unit standing on the map the move
\* value of its definition as move points, except that a WUDANG_archer on
\* hill or mountain terrain gets 3; it changes no hp, no confusion flag, no
\* stack and no owner.
C14_EndTurnReplenishes ==
    [][ last_op'.op = "end_turn" =>
          /\ \A p \in Provinces : \A i \in DOMAIN units[p] :
                LET u == units[p][i]
                IN  mp'[u] = IF /\ unit_type[u] = "WUDANG_archer"
                                /\ lower(GameMap.terrain[p])
                                     \in {"hill", "mountain", "hills", "mountains"}
                             THEN 3
                             ELSE get_definition(unit_type[u]).move
          /\ units' = units
          /\ country' = country
          /\ hp' = hp
          /\ is_confused' = is_confused
      ]_vars

\* C14, reached: after an end-turn a WUDANG_archer on the hill tile has 3
\* move points while its definition gives it 2.
C14_ArcherOnHill ==
    /\ last_op.op = "end_turn"
    /\ \E p \in Provinces : \E i \in DOMAIN units[p] :
          /\ unit_type[units[p][i]] = "WUDANG_archer"
          /\ GameMap.terrain[p] = "Hill"
          /\ get_definition("WUDANG_archer").move = 2
          /\ mp[units[p][i]] = 3

\* C15: when a resolved combat makes the defenders retreat, the tile they
\* arrive at (the one tile other than the target whose stack grows) is in
\* the adjacency list of the defender tile, is not owned by an enemy of the
\* defenders, holds at most 3 units afterwards, is not rough terrain and is
\* not across a river-flagged edge from the defender tile.
C15_RetreatDestination ==
    [][ last_op'.op = "resolve" =>
          LET t == combat_callback.target
          IN  \A d \in Provinces \ {t} :
                 Len(units'[d]) > Len(units[d]) =>
                    /\ d \in SeqToSet(GameMap._adjacency[t])
                    /\ ~(country[d] # "" /\ country[d] # country[t])
                    /\ Len(units'[d]) <= 3
                    /\ ~is_mtn(GameMap.terrain[d])
                    /\ <<t, d>> \notin GameMap._river_crossing_edges
      ]_vars

\* The tiles that qualify as a retreat destination from the tile t in the
\* store S: neighbours of t that no enemy of the defenders owns, that have
\* room for the retreating stack and that are not rough terrain.
C16_Qualifying(S, t) ==
    { d \in SeqToSet(GameMap._adjacency[t]) :
        /\ S.country[d] \in {"", S.country[t]}
        /\ Len(S.units[d]) + Len(S.units[t]) <= 3
        /\ ~is_mtn(GameMap.terrain[d]) }

\* What a retreat leaves alone: flags, counters and owners.
C16_RestUnchanged(S, R) ==
    /\ R.country = S.country
    /\ R.is_confused = S.is_confused
    /\ R.attack_count = S.attack_count
    /\ R.mp = S.mp

C17_EmptiedTileChangesOwner ==
    [][ last_op'.op = "resolve" =>
          LET t == combat_callback.target
          IN  SeqToSet(units'[t]) \cap SeqToSet(units[t]) = {}
                 => country'[t] = player_country
      ]_vars

\* The units that enter the emptied tile: the first (up to two) attackers,
\* in participation order, with hp > 0 that stand in their origin stack.
C18_Entrants(S, attackers) ==
    LET able == SelectSeq(attackers,
                          LAMBDA e : S.hp[e[2]] > 0 /\ e[2] \in SeqToSet(S.units[e[1]]))
    IN  [i \in 1..Min(2, Len(able)) |-> able[i][2]]

\* C18: the advance after combat happens only when the defender tile is empty
\* after cleanup; then the tile holds exactly the first (up to two)
\* participating attackers, in participation order, that are alive and in
\* their origin stack, and nothing else, and it is owned by the player if a
\* unit entered.  When a defender survives in place nothing changes at all.
C18_AdvanceIntoEmptiedTile ==
    probe.fn = "_advance_after_combat" =>
        LET S == probe.S
            R == probe.result
            t == probe.target
        IN  IF S.units[t] # <<>> THEN R = S
            ELSE /\ R.units[t] = C18_Entrants(S, probe.attackers)
                 /\ Len(R.units[t]) <= 2
                 /\ R.country[t] = IF R.units[t] # <<>> THEN probe.player ELSE S.country[t]
                 /\ \A p \in Provinces \ {t} : R.country[p] = S.country[p]
                 /\ R.hp = S.hp /\ R.is_confused = S.is_confused
                 /\ R.attack_count = S.attack_count /\ R.mp = S.mp

\* C18, reached: of three attackers the first was killed in the combat, the
\* other two are alive in their stacks; those two have entered the emptied
\* tile in participation order.
C18_SecondAndThirdEnter ==
    /\ probe.fn = "_advance_after_combat"
    /\ Len(probe.attackers) = 3
    /\ probe.S.units[probe.target] = <<>>
    /\ probe.S.hp[probe.attackers[1][2]] = 0
    /\ probe.result.units[probe.target]
         = << probe.attackers[2][2], probe.attackers[3][2] >>

\* C19: the adjacency graph is symmetric: B is in A's neighbour list iff A
\* is in B's, and the river-crossing flag is set for (A, B) iff it is set for
\* (B, A), for every placement of tiles and polyline points on the grid.
C19_AdjacencySymmetric ==
    probe.fn = "_build_adjacency_graph" =>
        LET g == probe.result
            ids == DOMAIN g._adjacency
        IN  \A A \in ids, B \in ids :
               /\ (B \in SeqToSet(g._adjacency[A])) <=> (A \in SeqToSet(g._adjacency[B]))
               /\ (<<A, B>> \in g._river_crossing_edges)
                     <=> (<<B, A>> \in g._river_crossing_edges)

\* C20: in every reachable state every unit's hp is 0, 1 or 2, and no step
\* increases the hp of a unit.
C20_HpBounded ==
    /\ [](\A u \in DOMAIN hp : hp[u] \in {0, 1, 2})
    /\ [][\A u \in DOMAIN hp : hp'[u] <= hp[u]]_vars

\* C20, reached: a combat resolution has left a unit at hp 0.
C20_UnitKilled ==
    /\ last_op.op = "resolve"
    /\ \E u \in DOMAIN hp : hp[u] = 0

\* C21: in every reachable state every unit's move points are at least 0.
C21_MovePointsNonNegative ==
    \A u \in DOMAIN mp : mp[u] >= 0

\* The units of the set U whose hp differs between the stores S and R.
C22_Hit(S, R, U) == { u \in U : R.hp[u] # S.hp[u] }

\* Exactly n units of U lose hp from S to R, and each of them exactly 1.
C22_LoseOneEach(S, R, U, n) ==
    /\ Cardinality(C22_Hit(S, R, U)) = n
    /\ \A u \in C22_Hit(S, R, U) : R.hp[u] = S.hp[u] - 1

\* C22: on A2 with at least two living attackers two different attackers
\* lose exactly 1 hp each; on A1 exactly one attacker loses exactly 1 hp; on
\* D1, and on D1R when the defenders do retreat, exactly one defender loses
\* exactly 1 hp.
C22_DamageByCode ==
    probe.fn = "_resolve_combat" =>
        LET S == probe.S
            R == probe.result
            t == probe.target
            A == { probe.attackers[i][2] : i \in DOMAIN probe.attackers }
            D == SeqToSet(S.units[t])
            retreated == \E d \in Provinces \ {t} : SeqToSet(R.units[d]) \cap D # {}
        IN  /\ (probe.code = "A2" /\ Cardinality(A) >= 2) => C22_LoseOneEach(S, R, A, 2)
            /\ probe.code = "A1" => C22_LoseOneEach(S, R, A, 1)
            /\ probe.code = "D1" => C22_LoseOneEach(S, R, D, 1)
            /\ (probe.code = "D1R" /\ retreated) => C22_LoseOneEach(S, R, D, 1)

\* C23: a result code affects only the side it names.  On C no unit's hp
\* changes and the defenders keep their confusion flags and their tile; on
\* A2, A1 and AG the defenders keep hp, confusion flag and tile and the tile
\* keeps its owner; on DG, DR, D1 and D1R no attacker's hp changes.
C23_OnlyTheNamedSide ==
    [][ last_op'.op = "resolve" =>
          LET code == last_op'.note
              t == combat_callback.target
              A == { combat_callback.attackers[i][2] : i \in DOMAIN combat_callback.attackers }
              D == SeqToSet(units[t])
              DefendersKept ==
                  /\ units'[t] = units[t]
                  /\ \A u \in D : is_confused'[u] = is_confused[u]
          IN  /\ code = "C" => (hp' = hp /\ DefendersKept)
              /\ code \in {"A2", "A1", "AG"} =>
                    /\ DefendersKept
                    /\ \A u \in D : hp'[u] = hp[u]
                    /\ country'[t] = country[t]
              /\ code \in {"DG", "DR", "D1", "D1R"} => \A u \in A : hp'[u] = hp[u] ]_vars

\* The centres of p and t are less than 1.1 strides apart (one stride
\* squared is 12 in the unit of Dist2, and 1.1 squared is 1.21).
C24_Near(p, t) == 100 * Dist2(ProvincePos[p], ProvincePos[t]) < 121 * 12

\* C24: an engagement is flanked iff at least two distinct attacker-origin
\* tiles are within neighbour distance of the target: attackers of one tile
\* count once, and an origin beyond neighbour distance does not count.
C24_Flanked ==
    probe.fn = "is_flanked" =>
        LET origins == { probe.sel[i][1] : i \in DOMAIN probe.sel }
        IN  probe.result <=>
               \E p \in origins, q \in origins :
                   p # q /\ C24_Near(p, probe.target) /\ C24_Near(q, probe.target)

\* C24, reached: three attackers, two from one neighbour tile of the target
\* and one from a tile two strides away; the engagement is not flanked.
C24_TwoFromOneTileAndOneFar ==
    /\ probe.fn = "is_flanked"
    /\ Len(probe.sel) = 3
    /\ probe.sel[1][1] = probe.sel[2][1]
    /\ C24_Near(probe.sel[1][1], probe.target)
    /\ probe.sel[1][1] # probe.target
    /\ Dist2(ProvincePos[probe.sel[3][1]], ProvincePos[probe.target]) = 4 * 12
    /\ ~probe.result

\* The power of a unit from a base value, in tenths: halved if the unit is
\* injured, then reduced by 1 with floor 0 if it is confused.
C25_Power(S, u, base) ==
    LET halved == IF S.hp[u] < 2 THEN 5 * base ELSE 10 * base
    IN  IF S.is_confused[u] THEN Max(0, halved - 10) ELSE halved

\* Infantry beats archer, archer beats cavalry, cavalry beats infantry.
C25_Beats(a, d) ==
    << base_type(unit_type[a]), base_type(unit_type[d]) >>
        \in { <<"infantry", "archer">>, <<"archer", "cavalry">>, <<"cavalry", "infantry">> }

\* The matchup adjustment of the attacker u against the stack D, in tenths.
C25_Adjustment(u, D) ==
    (IF \E d \in D : C25_Beats(u, d) THEN 5 ELSE 0)
        + (IF \E d \in D : C25_Beats(d, u) THEN -5 ELSE 0)

RECURSIVE C25_Sum(_, _)
C25_Sum(f, U) ==
    IF U = {} THEN 0
    ELSE LET u == CHOOSE x \in U : TRUE IN f[u] + C25_Sum(f, U \ {u})

\* C25: total attack is the sum over the participating attackers of power
\* (from base attack) plus matchup adjustment; total defense is the sum of
\* the defenders' powers (from base defense), floored at 0.1.
C25_PowerSums ==
    probe.fn = "_handle_combat" =>
        LET S == probe.S
            A == { S.units[probe.sel[i][1]][probe.sel[i][2]] : i \in DOMAIN probe.sel }
            D == SeqToSet(S.units[probe.target])
            atk == [u \in A |-> C25_Power(S, u, get_definition(unit_type[u]).attack)
                                   + C25_Adjustment(u, D)]
            dfs == [u \in D |-> C25_Power(S, u, get_definition(unit_type[u]).defense)]
        IN  /\ probe.total_attack = C25_Sum(atk, A)
            /\ probe.total_defense = Max(1, C25_Sum(dfs, D))

\* C25, reached: an injured, confused infantry attacks a mixed stack of an
\* archer and a cavalry; bonus and penalty cancel and the total attack is
\* 3 / 2 - 1 = 0.5.
C25_MixedStackCancels ==
    /\ probe.fn = "_handle_combat"
    /\ Len(probe.sel) = 1
    /\ LET u == probe.S.units[probe.sel[1][1]][probe.sel[1][2]]
           D == SeqToSet(probe.S.units[probe.target])
       IN  /\ unit_type[u] = "infantry"
           /\ probe.S.hp[u] = 1 /\ probe.S.is_confused[u]
           /\ { unit_type[d] : d \in D } = {"archer", "cavalry"}
    /\ probe.total_attack = 5

\* C26: without an impassable boundary, two distinct tiles are adjacent iff
\* their centres are less than 1.1 strides apart (one stride squared is 12 in
\* the unit of Dist2), the neighbour distance of the flanking test.
C26_NeighbourDistance ==
    (probe.fn = "_build_adjacency_graph" /\ probe.kind = "river") =>
        LET adj == probe.result._adjacency
        IN  \A A \in DOMAIN adj, B \in DOMAIN adj :
               A # B =>
                  ( B \in SeqToSet(adj[A])
                      <=> 100 * Dist2(probe.pos[A], probe.pos[B]) < 121 * 12 )

\* C27: every entry of the selection refers to an existing unit slot on a
\* tile owned by the player's faction.
C27_SelectionIsOwn ==
    \A i \in DOMAIN selected_units :
       LET pid == selected_units[i][1]
           idx == selected_units[i][2]
       IN  /\ idx \in DOMAIN units[pid]
           /\ country[pid] = player_country

\* C28: when the die is rolled, the attackers resolved are the currently
\* selected units and the column used is get_ratio_column of the powers and
\* flanking of those attackers and of the defenders as they are at the roll.
C28_RollUsesCurrentState ==
    [][ last_op'.op = "resolve" =>
          /\ combat_callback.attackers = participating_attackers(Store, selected_units)
          /\ combat_callback.col_index
                = PreviewColumn(Store, selected_units, combat_callback.target) ]_vars

\* C29: after a restart every unit is at its load-time tile with hp 2, not
\* confused, attack_count 0 and its turn-start move points; the selection is
\* empty and no combat preview or dice callback is left.
C29_RestartIsFreshGame ==
    last_op.op = "restart" =>
        /\ units = LoadTime.units
        /\ \A u \in DOMAIN unit_type :
              hp[u] = 2 /\ ~is_confused[u] /\ attack_count[u] = 0
        /\ mp = _replenish_action_points(
                    [units |-> LoadTime.units, mp |-> [u \in DOMAIN unit_type |-> 0]])
        /\ selected_units = <<>>
        /\ ~show_combat_ui
        /\ combat_target = 0
        /\ combat_callback = NoCallback

\* C30: retreat and advance relocate units only along edges of the adjacency
\* graph: a unit that a combat resolution puts on a tile stood before on a
\* tile whose adjacency list holds that tile.
C30_RelocationAlongEdges ==
    [][ last_op'.op = "resolve" =>
          \A q \in Provinces :
             \A u \in SeqToSet(units'[q]) \ SeqToSet(units[q]) :
                \E p \in Provinces :
                   /\ u \in SeqToSet(units[p])
                   /\ q \in SeqToSet(GameMap._adjacency[p]) ]_vars

====
